---------------------------- MODULE Spec2Model ----------------------------
(***************************************************************************)
(* Model of the UDF formula engine of scilifelab_epps                      *)
(* (scripts/calculate_udf_formulas.py, utils/udf_tools.py).                *)
(*                                                                         *)
(* Text is modelled as sequences of one-character strings, so that the     *)
(* regular-expression passes of parse_formula, the substring tests that    *)
(* select a placeholder's entity, str.format and eval's tokenisation are   *)
(* computed character by character as the code computes them.              *)
(***************************************************************************)
EXTENDS Integers, Sequences, FiniteSets, TLC

VARIABLES
    udf,        \* udf[e]: the UDF dictionary of entity e (artifact or step)
    field,      \* rows of the formula field of the step
    hist,       \* the step and its history in the LIMS: artifacts, steps, links
    step_type,  \* main's local step_type, "" before get_step_type has run
    formulas,   \* main's local list of formulas
    iter,       \* the list apply_formula is iterating over, as pairings
    pc,         \* position of main(): "idle", "parse", "apply", "done", "failed"
    fi,         \* index of the formula being parsed / applied
    pi,         \* index of the pairing (or input) being processed
    parsed,     \* result of parse_formula for formulas[fi]
    exc,        \* exception that left main(), "none" when there is none
    trace,      \* ghost: one record per loop iteration of apply_formula
    p_in,       \* parse_formula harness: the formula text given
    p_out,      \* parse_formula harness: what parse_formula did with it
    fl_hist,    \* fetch_last: the artifact/step history it walks
    fl_udf,     \* fetch_last: fl_udf[a] is the UDF dictionary of artifact a
    fl_args,    \* fetch_last: target_art, target_udfs, include_current, on_fail
    fl_art,     \* fetch_last: its local current_art
    fl_n,       \* fetch_last: its local n
    fl_pc,      \* fetch_last: "idle", "loop", "returned", "raised"
    fl_ret,     \* fetch_last: what it returned or raised
    fl_read,    \* ghost: the artifacts whose UDFs fetch_last has looked at
    wr_pc,      \* epp_wrapper: "idle", "setup", "main", "check", "upload", "final", "exited"
    wr_flag,    \* epp_wrapper: logger.errors_or_warnings of the TrackingRootLogger
    wr_log,     \* epp_wrapper: the records written to the log file, in order
    wr_exc,     \* epp_wrapper: its local script_exception, "none" for None
    wr_in_log,  \* epp_wrapper: its local errors_or_warnings_in_log
    wr_upload,  \* epp_wrapper: its local log_upload_failed
    wr_msg,     \* epp_wrapper: final_message_lines as written to stderr
    wr_exit,    \* epp_wrapper: exit status of the process, "none" while it runs
    wr_emitted, \* ghost: every log record emitted, with the logger it was emitted on
    wr_raised,  \* ghost: what script_main raised, "none" if nothing
    ix_label,   \* idxs_from_label: the reagent label given
    ix_out,     \* idxs_from_label: what it returned or raised, NoIdxs before the call
    cp_in,      \* check_pair_distance: row, row_comp, check_flips, threshold
    cp_out,     \* check_pair_distance: what it logged and raised, NoCheck before the call
    mf_proc,    \* get_manifests: the step, its pools with their samples, its UDFs
    mf_rows,    \* get_manifests: the rows of df_samples_and_controls
    mf_pc,      \* get_manifests: "idle", "rows", "phix", "check", "make", "returned", "raised"
    mf_pos,     \* get_manifests: the lane and the pair of rows check_distances is at
    mf_log,     \* get_manifests: the warnings and errors logged, in order
    mf_made,    \* get_manifests: its local list manifests
    mf_exc,     \* get_manifests: the exception that left it, "none" if none
    mf_compared, \* ghost: the pairs of rows given to check_pair_distance, in order
    mn_pc,      \* main of generate_aviti_run_manifest.py: "idle", "manifests", "upload", "move", "done", "failed"
    mn_zip,     \* main of generate_aviti_run_manifest.py: the files written to the zip file, in order
    pt_in,      \* udf_tools.put: target_udf's value before the call, val, on_fail
    pt_udf,     \* udf_tools.put: target.udf, the UDFs of the target object in memory
    pt_lims,    \* udf_tools.put: the UDFs of the target as stored in the LIMS
    pt_pc,      \* udf_tools.put: "idle", "assign", "put", "except", "returned", "raised"
    pt_out      \* udf_tools.put: what target.put() did, and what put returned or raised

fetch_vars == <<fl_hist, fl_udf, fl_args, fl_art, fl_n, fl_pc, fl_ret, fl_read>>

wrap_vars == <<wr_pc, wr_flag, wr_log, wr_exc, wr_in_log, wr_upload, wr_msg, wr_exit,
              wr_emitted, wr_raised>>

\* the variables of the functions modelled on their own
idx_vars == <<ix_label, ix_out>>
pair_vars == <<cp_in, cp_out>>
man_vars == <<mf_proc, mf_rows, mf_pc, mf_pos, mf_log, mf_made, mf_exc, mf_compared>>
main_vars == <<mn_pc, mn_zip>>
put_vars == <<pt_in, pt_udf, pt_lims, pt_pc, pt_out>>
aux_vars == <<fetch_vars, wrap_vars, idx_vars, pair_vars, man_vars, main_vars, put_vars>>

vars == <<udf, field, hist, step_type, formulas, iter, pc, fi, pi, parsed, exc, trace,
          p_in, p_out, aux_vars>>

engine_vars == <<udf, field, hist, step_type, formulas, iter, pc, fi, pi, parsed, exc, trace>>
parse_vars == <<p_in, p_out>>

\* what an action of one of these functions leaves alone
not_fetch == <<engine_vars, parse_vars, wrap_vars, idx_vars, pair_vars, man_vars, main_vars, put_vars>>
not_wrap == <<engine_vars, parse_vars, fetch_vars, idx_vars, pair_vars, man_vars, main_vars, put_vars>>
not_idx == <<engine_vars, parse_vars, fetch_vars, wrap_vars, pair_vars, man_vars, main_vars, put_vars>>
not_pair == <<engine_vars, parse_vars, fetch_vars, wrap_vars, idx_vars, man_vars, main_vars, put_vars>>
not_main == <<engine_vars, parse_vars, fetch_vars, wrap_vars, idx_vars, pair_vars, put_vars>>
not_put == <<engine_vars, parse_vars, fetch_vars, wrap_vars, idx_vars, pair_vars, man_vars, main_vars>>
not_man == <<not_main, main_vars>>

---------------------------------------------------------------------------
(* Text helpers: Python's str operations on sequences of characters.       *)

\* s[i:i+len(p)] == p
IsAt(s, i, p) ==
    /\ i >= 1
    /\ i + Len(p) - 1 <= Len(s)
    /\ \A k \in 1..Len(p) : s[i + k - 1] = p[k]

\* Python: p in s
Contains(s, p) == \E i \in 1..(Len(s) + 1) : IsAt(s, i, p)

\* Python: s.find(p, i) with 1-based positions, 0 when p does not occur
RECURSIVE Find(_, _, _)
Find(s, p, i) ==
    IF i + Len(p) - 1 > Len(s) THEN 0
    ELSE IF IsAt(s, i, p) THEN i
    ELSE Find(s, p, i + 1)

Slice(s, i, j) == IF j < i THEN <<>> ELSE SubSeq(s, i, j)

Whitespace == {" "}

\* Python: s.strip()
RECURSIVE LStrip(_)
LStrip(s) == IF s # <<>> /\ Head(s) \in Whitespace THEN LStrip(Tail(s)) ELSE s

RECURSIVE RStrip(_)
RStrip(s) ==
    IF s # <<>> /\ s[Len(s)] \in Whitespace
    THEN RStrip(SubSeq(s, 1, Len(s) - 1))
    ELSE s

Strip(s) == RStrip(LStrip(s))

\* Python: s.count(p), non-overlapping occurrences from the left
RECURSIVE CountFrom(_, _, _)
CountFrom(s, p, i) ==
    LET j == Find(s, p, i)
    IN  IF j = 0 \/ j > Len(s) THEN 0 ELSE 1 + CountFrom(s, p, j + Len(p))

Count(s, p) == CountFrom(s, p, 1)

---------------------------------------------------------------------------
(* The words of the formula language.                                      *)

Q == "'"
c_inp == <<"i", "n", "p">>
c_outp == <<"o", "u", "t", "p">>
c_step == <<"s", "t", "e", "p">>
c_slot == <<"{", "}">>
c_eqeq == <<"=", "=">>
c_eq == <<"=">>

f_ng_ul == <<"n", "g", "_", "u", "l">>
f_nM == <<"n", "M">>
f_fmol_to_ng == <<"f", "m", "o", "l", "_", "t", "o", "_", "n", "g">>
f_ng_to_fmol == <<"n", "g", "_", "t", "o", "_", "f", "m", "o", "l">>
f_ng_ul_to_nM == <<"n", "g", "_", "u", "l", "_", "t", "o", "_", "n", "M">>
f_nM_to_ng_ul == <<"n", "M", "_", "t", "o", "_", "n", "g", "_", "u", "l">>

\* parse_formula: allowed_functions, in the order of the list
allowed_functions ==
    <<f_ng_ul, f_nM, f_fmol_to_ng, f_ng_to_fmol, f_ng_ul_to_nM, f_nM_to_ng_ul>>

\* parse_formula: allowed_strings, in the order of the list
allowed_strings ==
    << <<Q, "n", "g", "/", "u", "l", Q>>, <<Q, "n", "M", Q>> >>

Digits == {"0", "1", "2", "3", "4", "5", "6", "7", "8", "9"}

\* parse_formula: the character class of pure_math_pattern
pure_math_chars == {"=", ",", "+", "-", "*", "/", "(", ")", "{", "}"} \cup Digits \cup Whitespace

---------------------------------------------------------------------------
(* parse_formula                                                           *)

\* placeholder_pattern without the optional underscore, tried at position i:
\* a scope tag, "[", then lazily up to the first "]". The end position, or 0.
MatchScoped(s, i) ==
    LET tags == { t \in {c_inp, c_outp, c_step} : IsAt(s, i, t) /\ IsAt(s, i + Len(t), <<"[">>) }
    IN  IF tags = {} THEN 0
        ELSE LET t == CHOOSE t \in tags : TRUE
             IN  Find(s, <<"]">>, i + Len(t) + 1)

\* placeholder_pattern  _?((inp)|(outp)|(step))\[.*?\]  tried at position i
MatchPlaceholder(s, i) ==
    IF i <= Len(s) /\ s[i] = "_" /\ MatchScoped(s, i + 1) # 0
    THEN MatchScoped(s, i + 1)
    ELSE MatchScoped(s, i)

\* re.finditer(placeholder_pattern, formula): the matched texts, left to right
RECURSIVE FindPlaceholders(_, _)
FindPlaceholders(s, i) ==
    IF i > Len(s) THEN <<>>
    ELSE LET e == MatchPlaceholder(s, i)
         IN  IF e # 0
             THEN <<SubSeq(s, i, e)>> \o FindPlaceholders(s, e + 1)
             ELSE FindPlaceholders(s, i + 1)

\* re.sub(placeholder_pattern, "{}", formula)
RECURSIVE SubPlaceholders(_, _)
SubPlaceholders(s, i) ==
    IF i > Len(s) THEN <<>>
    ELSE LET e == MatchPlaceholder(s, i)
         IN  IF e # 0
             THEN c_slot \o SubPlaceholders(s, e + 1)
             ELSE <<s[i]>> \o SubPlaceholders(s, i + 1)

\* The first alternative of an alternation (a)|(b)|... that matches at i, or 0
FirstAlt(s, i, alts) ==
    LET ok == { k \in 1..Len(alts) : IsAt(s, i, alts[k]) }
    IN  IF ok = {} THEN 0 ELSE CHOOSE k \in ok : \A m \in ok : k <= m

\* re.sub("(a)|(b)|...", "", s): one pass, leftmost match, first alternative wins
RECURSIVE RemoveAlts(_, _, _)
RemoveAlts(s, i, alts) ==
    IF i > Len(s) THEN <<>>
    ELSE LET k == FirstAlt(s, i, alts)
         IN  IF k # 0
             THEN RemoveAlts(s, i + Len(alts[k]), alts)
             ELSE <<s[i]>> \o RemoveAlts(s, i + 1, alts)

IsMathChar(c) == c \in pure_math_chars

\* re.sub(pure_math_pattern, "", s)
RemoveMath(s) == SelectSeq(s, LAMBDA c : ~IsMathChar(c))

\* The three stripping passes of parse_formula, in the code's order
StripAllowed(fstring) ==
    RemoveMath(RemoveAlts(RemoveAlts(fstring, 1, allowed_functions), 1, allowed_strings))

\* parse_formula(formula): ok = FALSE when one of its assertions fails
parse_formula(formula) ==
    LET placeholders == FindPlaceholders(formula, 1)
        fstring == SubPlaceholders(formula, 1)
        stripped == StripAllowed(fstring)
    IN  IF Count(fstring, c_slot) # Len(placeholders)
        THEN [ok |-> FALSE, why |-> "count", fstring |-> fstring,
              placeholders |-> placeholders, stripped |-> stripped]
        ELSE IF stripped # <<>>
        THEN [ok |-> FALSE, why |-> "disallowed", fstring |-> fstring,
              placeholders |-> placeholders, stripped |-> stripped]
        ELSE [ok |-> TRUE, why |-> "", fstring |-> fstring,
              placeholders |-> placeholders, stripped |-> stripped]

---------------------------------------------------------------------------
(* Values of UDFs and of Python expressions.  A float is held in           *)
(* thousandths (fixed point), an int in units; None is the absent value.   *)

IntV(n) == [t |-> "int", n |-> n, s |-> <<>>]
FloatV(m) == [t |-> "float", n |-> m, s |-> <<>>]
StrV(s) == [t |-> "str", n |-> 0, s |-> s]
None == [t |-> "none", n |-> 0, s |-> <<>>]
\* an exception raised while formatting or evaluating
Raised(e) == [t |-> e, n |-> 0, s |-> <<>>]

IsValue(v) == v.t \in {"int", "float", "str"}
IsNumber(v) == v.t \in {"int", "float"}

\* Python truth value: bool(v)
Truthy(v) ==
    CASE v.t = "none" -> FALSE
      [] v.t \in {"int", "float"} -> v.n # 0
      [] v.t = "str" -> v.s # <<>>
      [] OTHER -> TRUE

Milli(v) == IF v.t = "int" THEN v.n * 1000 ELSE v.n

Abs(x) == IF x < 0 THEN -x ELSE x

\* a / b rounded to the nearest integer (b # 0)
RoundDiv(a, b) ==
    LET sgn == IF (a < 0) = (b < 0) THEN 1 ELSE -1
    IN  sgn * ((2 * Abs(a) + Abs(b)) \div (2 * Abs(b)))

\* round(x, 2) of a float held in thousandths
Round2(m) == RoundDiv(m, 10) * 10

DigitSeq == <<"0", "1", "2", "3", "4", "5", "6", "7", "8", "9">>
DigitChar(d) == DigitSeq[d + 1]
DigitVal(c) == CHOOSE d \in 0..9 : DigitSeq[d + 1] = c

\* str(n) of a natural number
RECURSIVE NatToChars(_)
NatToChars(n) ==
    IF n < 10 THEN <<DigitChar(n)>>
    ELSE NatToChars(n \div 10) \o <<DigitChar(n % 10)>>

\* str(n) of an int
IntToChars(n) == IF n < 0 THEN <<"-">> \o NatToChars(-n) ELSE NatToChars(n)

\* the fraction digits of repr(float): three digits less trailing zeros, at least one
RECURSIVE DropZeros(_)
DropZeros(s) ==
    IF Len(s) > 1 /\ s[Len(s)] = "0" THEN DropZeros(SubSeq(s, 1, Len(s) - 1)) ELSE s

\* repr(x) of a float held in thousandths
FloatToChars(m) ==
    LET a == Abs(m)
        frac == <<DigitChar((a \div 100) % 10), DigitChar((a \div 10) % 10), DigitChar(a % 10)>>
    IN  (IF m < 0 THEN <<"-">> ELSE <<>>)
        \o NatToChars(a \div 1000) \o <<".">> \o DropZeros(frac)

\* what "{}".format(v) inserts for a value returned by get_val_from_placeholder
FormatValue(v) ==
    CASE v.t = "int" -> IntToChars(v.n)
      [] v.t = "float" -> FloatToChars(v.n)
      [] OTHER -> v.s

---------------------------------------------------------------------------
(* str.format and eval, on text.                                           *)
(* Every exception eval can raise is the one outcome Raised("EvalError");  *)
(* Raised("Unmodelled") marks Python text outside the part of the          *)
(* expression language modelled here (names, calls, ** and //, tuples,     *)
(* braces other than the slot {}, backslashes): NoUnmodelled checks that   *)
(* no run of the model meets it.                                           *)

\* rh_fstring.format(*rh_values): [ok, text]; ok = FALSE is an IndexError
RECURSIVE Format(_, _, _)
Format(s, i, vals) ==
    IF i > Len(s) THEN [ok |-> TRUE, text |-> <<>>, why |-> ""]
    ELSE IF IsAt(s, i, c_slot)
    THEN IF vals = <<>>
         THEN [ok |-> FALSE, text |-> <<>>, why |-> "IndexError"]
         ELSE LET r == Format(s, i + 2, Tail(vals))
              IN  [r EXCEPT !.text = FormatValue(Head(vals)) \o r.text]
    ELSE IF s[i] \in {"{", "}"}
    THEN [ok |-> FALSE, text |-> <<>>, why |-> "Unmodelled"]
    ELSE LET r == Format(s, i + 1, vals)
         IN  [r EXCEPT !.text = <<s[i]>> \o r.text]

Tok(k, v, c) == [k |-> k, v |-> v, c |-> c]

\* end of the run of digits that starts at i (i - 1 when s[i] is no digit)
RECURSIVE DigitsEnd(_, _)
DigitsEnd(s, i) ==
    IF i <= Len(s) /\ s[i] \in Digits THEN DigitsEnd(s, i + 1) ELSE i - 1

RECURSIVE DigitsVal(_, _)
DigitsVal(s, acc) ==
    IF s = <<>> THEN acc ELSE DigitsVal(Tail(s), acc * 10 + DigitVal(Head(s)))

\* the first three fraction digits, in thousandths
FracVal(s) ==
    LET d(k) == IF k <= Len(s) THEN DigitVal(s[k]) ELSE 0
    IN  100 * d(1) + 10 * d(2) + d(3)

IdentStart == {"n", "g", "u", "l", "M", "f", "m", "o", "t", "_", "x", "a", "b",
               "i", "p", "s", "e"}

\* names bound neither in eval_rh, nor in its module, nor in builtins: a NameError
UnboundNames == { <<"x">>, <<"a">>, <<"b">>, <<"a", "b">> }

RECURSIVE IdentEnd(_, _)
IdentEnd(s, i) ==
    IF i <= Len(s) /\ s[i] \in (IdentStart \cup Digits) THEN IdentEnd(s, i + 1) ELSE i - 1

\* Python's tokens of an expression; a token of kind "bad" ends a text that
\* does not tokenise, one of kind "unmodelled" a text outside the model
RECURSIVE Lex(_, _)
Lex(s, i) ==
    IF i > Len(s) THEN <<>>
    ELSE LET c == s[i] IN
    CASE c \in Whitespace -> Lex(s, i + 1)
      [] c \in Digits ->
            LET e == DigitsEnd(s, i)
                ip == SubSeq(s, i, e)
            IN  IF e < Len(s) /\ s[e + 1] = "."
                THEN LET fe == DigitsEnd(s, e + 2)
                     IN  <<Tok("num", FloatV(DigitsVal(ip, 0) * 1000
                                             + FracVal(Slice(s, e + 2, fe))), <<>>)>>
                         \o Lex(s, fe + 1)
                ELSE IF Len(ip) > 1 /\ ip[1] = "0" /\ DigitsVal(ip, 0) # 0
                THEN <<Tok("bad", None, <<>>)>>
                ELSE <<Tok("num", IntV(DigitsVal(ip, 0)), <<>>)>> \o Lex(s, e + 1)
      [] c = Q ->
            IF IsAt(s, i, <<Q, Q, Q>>)
            THEN LET j == Find(s, <<Q, Q, Q>>, i + 3)
                 IN  IF j = 0 THEN <<Tok("bad", None, <<>>)>>
                     ELSE <<Tok("str", StrV(Slice(s, i + 3, j - 1)), <<>>)>> \o Lex(s, j + 3)
            ELSE LET j == Find(s, <<Q>>, i + 1)
                 IN  IF j = 0 THEN <<Tok("bad", None, <<>>)>>
                     ELSE <<Tok("str", StrV(Slice(s, i + 1, j - 1)), <<>>)>> \o Lex(s, j + 1)
      [] c \in {"*", "/"} ->
            IF IsAt(s, i + 1, <<c>>) THEN <<Tok("unmodelled", None, <<>>)>>
            ELSE <<Tok("op", None, <<c>>)>> \o Lex(s, i + 1)
      [] c \in {"+", "-"} -> <<Tok("op", None, <<c>>)>> \o Lex(s, i + 1)
      [] c = "(" -> <<Tok("lp", None, <<>>)>> \o Lex(s, i + 1)
      [] c = ")" -> <<Tok("rp", None, <<>>)>> \o Lex(s, i + 1)
      [] c = "=" -> <<Tok("bad", None, <<>>)>>
      [] c \in IdentStart ->
            LET e == IdentEnd(s, i)
            IN  IF e < Len(s) /\ s[e + 1] = Q
                THEN <<Tok("unmodelled", None, <<>>)>>
                ELSE <<Tok("id", None, SubSeq(s, i, e))>> \o Lex(s, e + 1)
      [] OTHER -> <<Tok("unmodelled", None, <<>>)>>

\* 'a' * n
RECURSIVE Repeat(_, _)
Repeat(s, n) == IF n <= 0 THEN <<>> ELSE s \o Repeat(s, n - 1)

\* a op b in Python, for op one of + - * /
BinOp(op, a, b) ==
    CASE ~IsValue(a) -> a
      [] ~IsValue(b) -> b
      [] a.t = "str" /\ b.t = "str" ->
            IF op = "+" THEN StrV(a.s \o b.s) ELSE Raised("EvalError")
      [] a.t = "str" /\ b.t = "int" ->
            IF op = "*" THEN StrV(Repeat(a.s, b.n)) ELSE Raised("EvalError")
      [] a.t = "int" /\ b.t = "str" ->
            IF op = "*" THEN StrV(Repeat(b.s, a.n)) ELSE Raised("EvalError")
      [] a.t = "str" \/ b.t = "str" -> Raised("EvalError")
      [] op = "/" ->
            IF Milli(b) = 0 THEN Raised("EvalError")
            ELSE FloatV(RoundDiv(Milli(a) * 1000, Milli(b)))
      [] a.t = "int" /\ b.t = "int" ->
            IntV(CASE op = "+" -> a.n + b.n [] op = "-" -> a.n - b.n [] OTHER -> a.n * b.n)
      [] OTHER ->
            FloatV(CASE op = "+" -> Milli(a) + Milli(b)
                     [] op = "-" -> Milli(a) - Milli(b)
                     [] OTHER -> RoundDiv(Milli(a) * Milli(b), 1000))

\* -a
Negate(a) ==
    CASE ~IsValue(a) -> a
      [] a.t = "str" -> Raised("EvalError")
      [] OTHER -> [a EXCEPT !.n = -a.n]

Res(v, p) == [v |-> v, p |-> p]

IsOp(toks, p, ops) == p <= Len(toks) /\ toks[p].k = "op" /\ toks[p].c[1] \in ops

RECURSIVE PExpr(_, _), PExprRest(_, _), PTerm(_, _), PTermRest(_, _), PFactor(_, _), PAtom(_, _), PStrRest(_, _)

\* adjacent string literals are concatenated
PStrRest(toks, r) ==
    IF r.p <= Len(toks) /\ toks[r.p].k = "str"
    THEN PStrRest(toks, Res(StrV(r.v.s \o toks[r.p].v.s), r.p + 1))
    ELSE r

PAtom(toks, p) ==
    IF p > Len(toks) THEN Res(Raised("EvalError"), p)
    ELSE CASE toks[p].k = "num" -> Res(toks[p].v, p + 1)
           [] toks[p].k = "str" -> PStrRest(toks, Res(toks[p].v, p + 1))
           [] toks[p].k = "lp" ->
                LET r == PExpr(toks, p + 1)
                IN  IF p < Len(toks) /\ toks[p + 1].k = "rp"
                    THEN Res(Raised("Unmodelled"), p)
                    ELSE IF ~IsValue(r.v) THEN r
                    ELSE IF r.p <= Len(toks) /\ toks[r.p].k = "rp"
                    THEN Res(r.v, r.p + 1)
                    ELSE Res(Raised("EvalError"), r.p)
           [] toks[p].k = "id" ->
                IF toks[p].c \in UnboundNames THEN Res(Raised("EvalError"), p)
                ELSE Res(Raised("Unmodelled"), p)
           [] toks[p].k = "unmodelled" -> Res(Raised("Unmodelled"), p)
           [] OTHER -> Res(Raised("EvalError"), p)

PFactor(toks, p) ==
    IF IsOp(toks, p, {"-"})
    THEN LET r == PFactor(toks, p + 1) IN Res(Negate(r.v), r.p)
    ELSE IF IsOp(toks, p, {"+"})
    THEN LET r == PFactor(toks, p + 1)
         IN  Res(IF r.v.t = "str" THEN Raised("EvalError") ELSE r.v, r.p)
    ELSE PAtom(toks, p)

PTermRest(toks, l) ==
    IF IsValue(l.v) /\ IsOp(toks, l.p, {"*", "/"})
    THEN LET r == PFactor(toks, l.p + 1)
         IN  PTermRest(toks, Res(BinOp(toks[l.p].c[1], l.v, r.v), r.p))
    ELSE l

PTerm(toks, p) == PTermRest(toks, PFactor(toks, p))

PExprRest(toks, l) ==
    IF IsValue(l.v) /\ IsOp(toks, l.p, {"+", "-"})
    THEN LET r == PTerm(toks, l.p + 1)
         IN  PExprRest(toks, Res(BinOp(toks[l.p].c[1], l.v, r.v), r.p))
    ELSE l

PExpr(toks, p) == PExprRest(toks, PTerm(toks, p))

\* the value of a parsed expression: tokens left over are a SyntaxError
WholeInput(toks, r) ==
    IF IsValue(r.v) /\ r.p <= Len(toks) THEN Raised("EvalError") ELSE r.v

\* eval of the tokens of a text
EvalTokens(toks) ==
    IF \E k \in 1..Len(toks) : toks[k].k = "unmodelled" THEN Raised("Unmodelled")
    ELSE IF \E k \in 1..Len(toks) : toks[k].k = "bad" THEN Raised("EvalError")
    ELSE WholeInput(toks, PExpr(toks, 1))

\* eval(text): the value, or Raised(...)
Eval(text) == EvalTokens(Lex(text, 1))

---------------------------------------------------------------------------
(* The LIMS object graph: artifacts, steps, input-output maps.             *)
(* An entity is named by its id; "None", "True" and "False" stand for the  *)
(* Python values that the code passes where an entity is expected.         *)

NoEntity == "None"

\* Python truth value of an argument that is an entity, None or a bool
TruthyRef(e) == e \notin {"None", "False"}

\* whether the Python object has a .udf dictionary (an Artifact or a Process)
HasUdfDict(e) == e \notin {"None", "True", "False"}

\* obj.udf.get(name); None also for an e that has no UDF dictionary
UdfGet(store, e, name) ==
    IF e \in DOMAIN store /\ name \in DOMAIN store[e] THEN store[e][name] ELSE None

\* obj.udf[name] = val
UdfSet(store, e, name, val) ==
    [store EXCEPT ![e] = [k \in (DOMAIN store[e]) \cup {name} |->
                             IF k = name THEN val ELSE store[e][k]]]

\* list.sort(key=...): stable insertion sort of <<key, item>> pairs by key
RECURSIVE InsertByKey(_, _)
InsertByKey(sorted, x) ==
    IF sorted = <<>> THEN <<x>>
    ELSE IF sorted[Len(sorted)][1] <= x[1] THEN Append(sorted, x)
    ELSE Append(InsertByKey(SubSeq(sorted, 1, Len(sorted) - 1), x), sorted[Len(sorted)])

RECURSIVE SortByKey(_)
SortByKey(seq) ==
    IF seq = <<>> THEN <<>>
    ELSE InsertByKey(SortByKey(SubSeq(seq, 1, Len(seq) - 1)), seq[Len(seq)])

\* get_art_tuples(currentStep) on a history h: the pairings kept, sorted by name
get_art_tuples(h, proc) ==
    LET keep(t) ==
            IF t[1] # NoEntity /\ t[2] # NoEntity
            THEN h.type[t[1]] = "Analyte" /\ h.type[t[2]] = "Analyte"
            ELSE IF t[1] # NoEntity /\ t[2] = NoEntity
            THEN h.type[t[1]] = "Analyte"
            ELSE IF t[1] = NoEntity /\ t[2] # NoEntity
            THEN h.type[t[2]] = "Analyte"
            ELSE FALSE
        key(t) == IF t[2] # NoEntity THEN h.name[t[2]] ELSE h.name[t[1]]
        kept == SelectSeq(h.maps[proc], keep)
        sorted == SortByKey([k \in 1..Len(kept) |-> <<key(kept[k]), kept[k]>>])
    IN  [k \in 1..Len(sorted) |-> sorted[k][2]]

\* the inputs of the parent step's pairings whose output is the artifact:
\* fetch_last's loop over pp_art_tuples; "TypeError" when it subscripts None
RECURSIVE LinkedInputs(_, _, _)
LinkedInputs(tuples, k, art) ==
    IF k > Len(tuples) THEN [ok |-> TRUE, arts |-> <<>>]
    ELSE IF tuples[k][2] = NoEntity THEN [ok |-> FALSE, arts |-> <<>>]
    ELSE IF tuples[k][2] = art
    THEN IF tuples[k][1] = NoEntity THEN [ok |-> FALSE, arts |-> <<>>]
         ELSE LET r == LinkedInputs(tuples, k + 1, art)
              IN  [r EXCEPT !.arts = <<tuples[k][1]>> \o r.arts]
    ELSE LinkedInputs(tuples, k + 1, art)

Got(v) == [k |-> "val", v |-> v, e |-> ""]
Skipped == [k |-> "skip", v |-> None, e |-> ""]
Raises(e) == [k |-> "raise", v |-> None, e |-> e]

\* fetch_last(target_art, target_udf, include_current=True, on_fail=None):
\* Got(value), Got(None) when on_fail is returned, Raises(e) for an exception
\* that is not an AssertionError; hops bounds the walk
RECURSIVE fetch_last(_, _, _, _, _)
fetch_last(store, h, current_art, target_udf, hops) ==
    LET pp == h.parent[current_art]
        tuples == get_art_tuples(h, pp)
        linked == LinkedInputs(tuples, 1, current_art)
    IN  IF target_udf \in DOMAIN store[current_art]
        THEN Got(store[current_art][target_udf])
        ELSE IF pp = NoEntity THEN Got(None)
        ELSE IF tuples = <<>> THEN Raises("NotImplementedError")
        ELSE IF ~linked.ok THEN Raises("TypeError")
        ELSE IF Len(linked.arts) # 1 THEN Got(None)
        ELSE IF hops = 0 THEN Raises("NoTermination")
        ELSE fetch_last(store, h, linked.arts[1], target_udf, hops - 1)

---------------------------------------------------------------------------
(* Resolving, evaluating and assigning placeholders.                       *)

MaxHops == 4

\* re.findall(r"'(.*?)'", placeholder): the texts between successive quote pairs
RECURSIVE QuotedNames(_, _)
QuotedNames(s, i) ==
    LET a == Find(s, <<Q>>, i)
        b == IF a = 0 THEN 0 ELSE Find(s, <<Q>>, a + 1)
    IN  IF a = 0 \/ a > Len(s) \/ b = 0 \/ b > Len(s) THEN <<>>
        ELSE <<Slice(s, a + 1, b - 1)>> \o QuotedNames(s, b + 1)

\* re.search(r"\['(.*?)'\]", placeholder): [found, name]
TargetName(s) ==
    LET a == Find(s, <<"[", Q>>, 1)
        b == IF a = 0 THEN 0 ELSE Find(s, <<Q, "]">>, a + 2)
    IN  IF a = 0 \/ a > Len(s) \/ b = 0 \/ b > Len(s)
        THEN [found |-> FALSE, name |-> <<>>]
        ELSE [found |-> TRUE, name |-> Slice(s, a + 2, b - 1)]

\* The if/elif chain that picks the object of a placeholder, in both
\* assign_val_to_placeholder and get_val_from_placeholder: substring tests on
\* the whole placeholder text. [ok, obj]; ok = FALSE when the assert fails
SelectObj(placeholder, art_in, art_out, step) ==
    IF Contains(placeholder, c_inp) THEN [ok |-> TruthyRef(art_in), obj |-> art_in]
    ELSE IF Contains(placeholder, c_outp) THEN [ok |-> TruthyRef(art_out), obj |-> art_out]
    ELSE IF Contains(placeholder, c_step) THEN [ok |-> TruthyRef(step), obj |-> step]
    ELSE [ok |-> FALSE, obj |-> NoEntity]

\* get_val_from_placeholder's test  val is None
IsMissing(val) == val = None

\* what get_val_from_placeholder does when no name resolves: raise SkipCalculation()
OnUnresolved == Skipped

\* the for loop of get_val_from_placeholder over udf_names, from index i
RECURSIVE ResolveNames(_, _, _, _, _, _)
ResolveNames(store, h, obj, udf_names, i, recursive) ==
    LET r == IF recursive
             THEN IF obj = h.step THEN Raises("AssertionError")
                  ELSE fetch_last(store, h, obj, udf_names[i], MaxHops)
             ELSE Got(UdfGet(store, obj, udf_names[i]))
    IN  IF r.k # "val" THEN r
        ELSE IF IsMissing(r.v)
        THEN IF i + 1 <= Len(udf_names)
             THEN ResolveNames(store, h, obj, udf_names, i + 1, recursive)
             ELSE OnUnresolved
        ELSE r

\* get_val_from_placeholder's  if isinstance(val, str): val = f"'{val}'"
Requote(r) ==
    IF r.k = "val" /\ r.v.t = "str" THEN Got(StrV(<<Q>> \o r.v.s \o <<Q>>)) ELSE r

\* The message of the skipped calculation names the object with
\* obj.type.name when "step" is in the placeholder, and the type of an
\* artifact is a str: AttributeError in place of SkipCalculation
SkipMessage(r, placeholder, obj, step) ==
    IF r.k = "skip" /\ Contains(placeholder, c_step) /\ obj # step
    THEN Raises("AttributeError")
    ELSE r

\* get_val_from_placeholder: Got(v) with a str value re-quoted, Skipped for
\* SkipCalculation, Raises(e) for another exception
get_val_from_placeholder(store, h, placeholder, art_in, art_out, step) ==
    LET recursive == placeholder[1] = "_"
        udf_names == QuotedNames(placeholder, 1)
        sel == SelectObj(placeholder, art_in, art_out, step)
    IN  IF udf_names = <<>> THEN Raises("AssertionError")
        ELSE IF ~sel.ok THEN Raises("AssertionError")
        ELSE Requote(SkipMessage(ResolveNames(store, h, sel.obj, udf_names, 1, recursive),
                                 placeholder, sel.obj, step))

\* rh_values.append(rh_val): r is what get_val_from_placeholder gave for
\* one placeholder, rest the outcome for the placeholders after it
RhAppend(r, rest) ==
    IF r.k # "val" THEN [k |-> r.k, e |-> r.e, vals |-> <<>>]
    ELSE [rest EXCEPT !.vals = <<r.v>> \o rest.vals]

\* the loop of eval_rh over placeholders[1:]: [k, vals]
RECURSIVE RhValues(_, _, _, _, _, _, _)
RhValues(store, h, placeholders, i, art_in, art_out, step) ==
    IF i > Len(placeholders) THEN [k |-> "val", e |-> "", vals |-> <<>>]
    ELSE RhAppend(get_val_from_placeholder(store, h, placeholders[i], art_in, art_out, step),
                  RhValues(store, h, placeholders, i + 1, art_in, art_out, step))

\* formula_fstring.split(sep)[1]: the text between the first and second sep
SplitSecond(s, sep) ==
    LET a == Find(s, sep, 1)
        b == IF a = 0 THEN 0 ELSE Find(s, sep, a + Len(sep))
    IN  IF a = 0 \/ a > Len(s) THEN [ok |-> FALSE, text |-> <<>>]
        ELSE IF b = 0 \/ b > Len(s) THEN [ok |-> TRUE, text |-> Slice(s, a + Len(sep), Len(s))]
        ELSE [ok |-> TRUE, text |-> Slice(s, a + Len(sep), b - 1)]

\* what eval_rh hands back: [k, e, v, text, vals]; v is lh_val, text is
\* rh_eval_string
EvalOut(k, e, v, text, vals) == [k |-> k, e |-> e, v |-> v, text |-> text, vals |-> vals]

\* eval_rh from  lh_val = eval(rh_eval_string)  on
eval_value(vals, text, lh_val) ==
    IF ~IsValue(lh_val) THEN EvalOut("raise", lh_val.t, None, text, vals)
    ELSE EvalOut("val", "", lh_val, text, vals)

\* eval_rh from  rh_fstring.format(*rh_values)  on: fmt is its outcome
eval_string(vals, fmt) ==
    IF ~fmt.ok THEN EvalOut("raise", fmt.why, None, <<>>, vals)
    ELSE eval_value(vals, fmt.text, Eval(fmt.text))

\* eval_rh after its loop: rh is the outcome of the loop, piece that of
\* formula_fstring.split(sep)[1]
eval_values(rh, piece) ==
    IF rh.k # "val" THEN EvalOut(rh.k, rh.e, None, <<>>, <<>>)
    ELSE IF ~piece.ok THEN EvalOut("raise", "IndexError", None, <<>>, rh.vals)
    ELSE eval_string(rh.vals, Format(Strip(piece.text), 1, rh.vals))

\* eval_rh
eval_rh(store, h, formula_fstring, placeholders, art_in, art_out, step) ==
    eval_values(RhValues(store, h, placeholders, 2, art_in, art_out, step),
                SplitSecond(formula_fstring,
                            IF Contains(formula_fstring, c_eqeq) THEN c_eqeq ELSE c_eq))

\* the value rounded as eval_rh rounds it for its log line
WrittenValueRounded(val) == IF val.t = "float" THEN FloatV(Round2(val.n)) ELSE val

\* the value that  obj.udf[udf_name] = val  stores
WrittenValue(val) == val

\* the test that makes assign_val_to_placeholder skip
AlreadyExists(store, obj, udf_name) == Truthy(UdfGet(store, obj, udf_name))

\* assign_val_to_placeholder(val, placeholder, art_in, art_out, step, overwrite):
\* [k, e, store, obj, name]: k = "val" when val was written, "skip", or "raise"
assign_val_to_placeholder(store, val, placeholder, art_in, art_out, step, overwrite) ==
    LET tn == TargetName(placeholder)
        sel == SelectObj(placeholder, art_in, art_out, step)
        out(k, e, st) == [k |-> k, e |-> e, store |-> st, obj |-> sel.obj, name |-> tn.name]
    IN  IF ~tn.found THEN out("raise", "AssertionError", store)
        ELSE IF ~(Contains(placeholder, c_inp) \/ Contains(placeholder, c_outp)
                  \/ Contains(placeholder, c_step))
        THEN out("raise", "UnboundLocalError", store)
        ELSE IF ~sel.ok THEN out("raise", "AssertionError", store)
        ELSE IF ~HasUdfDict(sel.obj) THEN out("raise", "AttributeError", store)
        ELSE IF AlreadyExists(store, sel.obj, tn.name) /\ ~overwrite
        THEN out("skip", "", store)
        ELSE out("val", "", UdfSet(store, sel.obj, tn.name, WrittenValue(val)))

---------------------------------------------------------------------------
(* Formula texts.                                                          *)

n_A == <<"A">>
n_B == <<"B">>
n_C == <<"C">>
\* UDF names that hold the text of a scope tag
n_A_inp == <<"A", " ", "i", "n", "p">>
n_outp_C == <<"o", "u", "t", "p", " ", "C">>
UdfNames == {n_A, n_B, n_C, n_A_inp, n_outp_C}

RECURSIVE JoinNames(_)
JoinNames(names) ==
    IF names = <<>> THEN <<>>
    ELSE <<Q>> \o Head(names) \o <<Q>>
         \o (IF Len(names) > 1 THEN <<",">> ELSE <<>>) \o JoinNames(Tail(names))

\* the text  tag['n1','n2',...]
Ph(tag, names) == tag \o <<"[">> \o JoinNames(names) \o <<"]">>
Rec(tag) == <<"_">> \o tag

t_assign == <<" ", "=", " ">>
t_assign_new == <<" ", "=", "=", " ">>

\* formulas of the shapes shown in DESC
F_copy == Ph(c_outp, <<n_A>>) \o t_assign \o Ph(c_inp, <<n_B>>)
F_copy_new == Ph(c_outp, <<n_A>>) \o t_assign_new \o Ph(c_inp, <<n_B>>)
F_prio == Ph(c_outp, <<n_A>>) \o t_assign \o Ph(c_inp, <<n_B, n_C>>)
F_rec == Ph(c_outp, <<n_A>>) \o t_assign_new \o Ph(Rec(c_outp), <<n_C, n_B>>)
F_div == Ph(c_outp, <<n_A>>) \o t_assign \o Ph(c_inp, <<n_B>>) \o <<" ", "/", " ">>
         \o Ph(c_inp, <<n_C>>)
F_lin == Ph(c_outp, <<n_A>>) \o t_assign_new \o Ph(c_inp, <<n_C>>) \o <<" ", "*", " ", "2">>
F_inp_new == Ph(c_inp, <<n_A>>) \o t_assign_new \o Ph(c_inp, <<n_B>>)
F_inp == Ph(c_inp, <<n_A>>) \o t_assign \o Ph(c_inp, <<n_C>>)
F_step_new == Ph(c_step, <<n_A>>) \o t_assign_new \o Ph(c_inp, <<n_B>>)
F_step == Ph(c_step, <<n_A>>) \o t_assign \o Ph(c_inp, <<n_B>>)
F_set_c == Ph(c_inp, <<n_C>>) \o t_assign \o Ph(c_inp, <<n_B>>)
F_from_step == Ph(c_outp, <<n_A>>) \o t_assign_new \o Ph(c_step, <<n_C>>)
\* a decimal literal: rejected by parse_formula
F_half == Ph(c_outp, <<n_A>>) \o t_assign \o Ph(c_inp, <<n_B>>) \o <<" ", "*", " ", "0", ".", "5">>
F_comment == <<"#", " ", "x">>
F_out_inp == Ph(c_outp, <<n_A_inp>>) \o t_assign \o Ph(c_inp, <<n_B>>)
F_step_outp == Ph(c_step, <<n_outp_C>>) \o t_assign \o Ph(c_inp, <<n_B>>)
F_read_step == Ph(c_outp, <<n_A>>) \o t_assign \o Ph(c_step, <<n_outp_C>>)
\* a row that parse_formula rejects
F_bad == Ph(c_outp, <<n_A>>) \o t_assign \o <<"x">>

\* contents of the formula field, one element per row
FormulaFields ==
    { <<F_copy>>, <<F_copy_new>>, <<F_prio>>, <<F_rec>>, <<F_div>>, <<F_inp_new>>,
      <<F_step_new>>, <<F_step>>,
      <<F_copy_new, F_lin>>, <<F_lin, F_copy_new>>, <<F_inp, F_inp_new>>,
      <<F_comment, F_from_step, <<>>, F_copy_new>>, <<F_copy, F_half>>, <<F_half, F_copy>>,
      <<F_lin, F_set_c, F_lin>>,
      <<F_out_inp>>, <<F_step_outp, F_read_step>>, <<F_set_c, F_lin, F_bad, F_copy>> }

\* formula fields tried on a step that adds labels
LabelFields == { <<F_copy>>, <<F_copy_new>>, <<F_rec>> }

\* formula fields tried on a step without analyte outputs
NoOutputFields ==
    { <<F_inp_new>>, <<F_step_new>>, <<F_step>>, <<F_inp, F_inp_new>>, <<F_copy>>,
      <<F_rec>>, <<F_prio>> }

\* get_formulas: the rows of the field that are neither empty nor comments
get_formulas(rows) ==
    LET stripped == [k \in 1..Len(rows) |-> Strip(rows[k])]
    IN  SelectSeq(stripped, LAMBDA row : row # <<>> /\ row[1] # "#")

---------------------------------------------------------------------------
(* Histories: the step being run ("P"), an earlier step ("P0"), and their  *)
(* artifacts.  anc1 --P0--> in1 --P--> out1,  in2 --P--> out2.             *)

Arts == {"anc1", "anc2", "in1", "in2", "out1", "out2", "rf1", "rf2"}
Entities == Arts \cup {"P"}

BaseHist ==
    [step |-> "P",
     pid |-> "24",
     maps |-> [q \in {"P", "P0"} |->
                  IF q = "P" THEN << <<"in2", "out2">>, <<"in1", "out1">> >>
                  ELSE << <<"anc1", "in1">> >>],
     parent |-> [a \in Arts |->
                  CASE a \in {"out1", "out2", "rf1", "rf2"} -> "P"
                    [] a = "in1" -> "P0"
                    [] OTHER -> NoEntity],
     type |-> [a \in Arts |-> IF a \in {"rf1", "rf2"} THEN "ResultFile" ELSE "Analyte"],
     name |-> [a \in Arts |->
                  CASE a = "anc1" -> 1 [] a = "in1" -> 2 [] a = "in2" -> 3
                    [] a = "out1" -> 4 [] a = "out2" -> 5 [] a = "rf1" -> 6
                    [] a = "rf2" -> 7 [] OTHER -> 8],
     all_inputs |-> <<"in1", "in2">>]

\* a step whose outputs are per-input result files, no analytes
NoOutputMaps ==
    [q \in {"P", "P0"} |->
        IF q = "P" THEN << <<"in1", "rf1">>, <<"in2", "rf2">> >>
        ELSE << <<"anc1", "in1">> >>]

LabelHist == [BaseHist EXCEPT !.pid = "151"]
NoOutputHist == [BaseHist EXCEPT !.maps = NoOutputMaps]
\* all_inputs() builds its list from a set: the other order of the inputs
NoOutputHist2 == [NoOutputHist EXCEPT !.all_inputs = <<"in2", "in1">>]

\* in1 is a pool: the earlier step links two inputs to it
PooledHist ==
    [BaseHist EXCEPT !.maps = [q \in {"P", "P0"} |->
        IF q = "P" THEN BaseHist.maps[q]
        ELSE << <<"anc1", "in1">>, <<"anc2", "in1">> >>]]

\* the earlier step has an input, anc2, that it pairs with no output
UnpairedHist ==
    [BaseHist EXCEPT !.maps = [q \in {"P", "P0"} |->
        IF q = "P" THEN BaseHist.maps[q]
        ELSE << <<"anc1", "in1">>, <<"anc2", NoEntity>> >>]]

\* the step pairs its inputs with no output
InputOnlyHist ==
    [BaseHist EXCEPT !.maps = [q \in {"P", "P0"} |->
        IF q = "P" THEN << <<"in1", NoEntity>>, <<"in2", NoEntity>> >>
        ELSE BaseHist.maps[q]]]

\* the steps the script is run on, each with the formula fields tried on it
Scenarios ==
    ({BaseHist} \X FormulaFields)
    \cup ({PooledHist, UnpairedHist} \X { <<F_rec>> })
    \cup ({LabelHist} \X LabelFields)
    \cup ({NoOutputHist} \X NoOutputFields)
    \cup ({NoOutputHist2} \X { <<F_inp_new>>, <<F_inp, F_inp_new>> })
    \cup ({InputOnlyHist} \X { <<F_inp>>, <<F_copy>> })

\* get_step_type(process)
get_step_type(h) ==
    IF h.pid = "24"
    THEN IF get_art_tuples(h, h.step) # <<>> THEN "Standard" ELSE "No Outputs"
    ELSE IF h.pid = "151" THEN "Add Labels"
    ELSE "AssertionError"

\* what apply_formula iterates over: pairings <<input, output>>; for a step
\* without outputs the analyte inputs, each paired with None
Iterated(h, st) ==
    IF st \in {"Standard", "Add Labels"}
    THEN get_art_tuples(h, h.step)
    ELSE LET ins == SelectSeq(h.all_inputs, LAMBDA a : h.type[a] = "Analyte")
         IN  [k \in 1..Len(ins) |-> <<ins[k], NoEntity>>]

---------------------------------------------------------------------------
(* Initial UDF values.                                                     *)

s_x == <<"x">>
\* a text with single quotes in it:  a'+'b
s_quote == <<"a", Q, "+", Q, "b">>

TargetVals == {None, IntV(0), FloatV(0), IntV(5), StrV(<<>>), StrV(s_x)}
SourceVals == {None, IntV(0), IntV(3), FloatV(1250), StrV(s_x), StrV(s_quote)}
FallbackVals == {None, IntV(0), IntV(8)}
AncestorVals == {None, IntV(7)}

\* a UDF dictionary from <<name, value>> pairs; a pair with None is an absent UDF
Dict(pairs) ==
    LET present == { k \in 1..Len(pairs) : pairs[k][2] # None }
    IN  [nm \in { pairs[k][1] : k \in present } |->
            pairs[CHOOSE k \in present : pairs[k][1] = nm][2]]

\* the store before the run: tv is the value of the target UDF A (on out1, on
\* in1 when the step has no analyte outputs, and on the step), b and c those of
\* B and C on in1, anc that of B on in1's ancestor
InitialStore(h, tv, b, c, anc) ==
    [e \in Entities |->
        CASE e = "out1" -> Dict(<< <<n_A, tv>> >>)
          [] e = "in1" -> IF get_step_type(h) = "No Outputs"
                          THEN Dict(<< <<n_A, tv>>, <<n_B, b>>, <<n_C, c>> >>)
                          ELSE Dict(<< <<n_B, b>>, <<n_C, c>> >>)
          [] e = "in2" -> Dict(<< <<n_B, IntV(4)>>, <<n_C, IntV(2)>> >>)
          [] e = "anc1" -> Dict(<< <<n_B, anc>> >>)
          [] e = "P" -> Dict(<< <<n_A, tv>>, <<n_C, IntV(6)>> >>)
          [] OTHER -> Dict(<<>>)]

---------------------------------------------------------------------------
(* main(): one run of the script on the step.                              *)

NoParse == [ok |-> FALSE, why |-> "", fstring |-> <<>>, placeholders |-> <<>>,
            stripped |-> <<>>]

BoolRef(b) == IF b THEN "True" ELSE "False"

\* apply_formula's  overwrite = False if "==" in formula_fstring else True
Overwrite(formula_fstring) == ~Contains(formula_fstring, c_eqeq)

\* The arguments with which apply_formula calls assign_val_to_placeholder for
\* the pairing t, as bound to its parameters (art_in, art_out, step, overwrite).
\* In the branch for steps without outputs the call passes
\* (val, placeholder, art_in, process, overwrite) positionally.
AssignArgs(h, st, t, overwrite) ==
    IF st \in {"Standard", "Add Labels"}
    THEN [art_in |-> t[1], art_out |-> t[2], step |-> h.step, overwrite |-> overwrite]
    ELSE [art_in |-> t[1], art_out |-> h.step, step |-> BoolRef(overwrite),
          overwrite |-> TRUE]

\* The outcome of one iteration: k = "assigned", "skip_rhs", "skip_exists" or
\* "raised" with the exception e, the new store, what eval_rh computed and
\* what assign_val_to_placeholder selected
Outcome(k, e, store, ev, asg) ==
    [k |-> k, e |-> e, store |-> store, val |-> ev.v, text |-> ev.text, vals |-> ev.vals,
     obj |-> asg.obj, name |-> asg.name]

NoEval == [v |-> None, text |-> <<>>, vals |-> <<>>]
NoAssign == [obj |-> NoEntity, name |-> <<>>]

\* the iteration after the call of assign_val_to_placeholder, asg
apply_assigned(store, ev, asg) ==
    IF asg.k = "raise" THEN Outcome("raised", asg.e, store, ev, asg)
    ELSE IF asg.k = "skip" THEN Outcome("skip_exists", "", store, ev, asg)
    ELSE Outcome("assigned", "", asg.store, ev, asg)

\* the iteration after the call of eval_rh, ev
apply_evaluated(store, p, args, ev) ==
    IF ev.k = "skip" THEN Outcome("skip_rhs", "", store, ev, NoAssign)
    ELSE IF ev.k = "raise" THEN Outcome("raised", ev.e, store, ev, NoAssign)
    ELSE IF p.placeholders = <<>> THEN Outcome("raised", "IndexError", store, ev, NoAssign)
    ELSE apply_assigned(store, ev,
             assign_val_to_placeholder(store, ev.v, p.placeholders[1], args.art_in,
                                       args.art_out, args.step, args.overwrite))

\* one iteration of the loop of apply_formula, on pairing t
apply_one(store, h, st, p, t) ==
    IF st \in {"Standard", "Add Labels"} /\ (t[1] = NoEntity \/ t[2] = NoEntity)
    THEN Outcome("raised", "TypeError", store, NoEval, NoAssign)
    ELSE apply_evaluated(store, p, AssignArgs(h, st, t, Overwrite(p.fstring)),
             eval_rh(store, h, p.fstring, p.placeholders, t[1], t[2], h.step))

\* the entity that placeholder ph denotes by its scope tag, for pairing t
EntityOf(h, ph, t) ==
    LET tag == IF ph[1] = "_" THEN Tail(ph) ELSE ph
    IN  IF IsAt(tag, 1, c_inp) THEN t[1]
        ELSE IF IsAt(tag, 1, c_outp) THEN t[2]
        ELSE h.step

\* ghost: the entity and UDF name the formula is meant to assign for pairing t
Target(h, p, t) ==
    IF p.placeholders = <<>> THEN [obj |-> NoEntity, name |-> <<>>]
    ELSE [obj |-> EntityOf(h, p.placeholders[1], t),
          name |-> TargetName(p.placeholders[1]).name]

\* fetch_last is not running
FetchIdle ==
    /\ fl_hist = BaseHist
    /\ fl_udf = [e \in Entities |-> Dict(<<>>)]
    /\ fl_args = [target_art |-> NoEntity, target_udfs |-> <<>>,
                  include_current |-> FALSE, on_fail |-> Raises("AssertionError")]
    /\ fl_art = NoEntity
    /\ fl_n = 0
    /\ fl_pc = "idle"
    /\ fl_ret = [k |-> "none", v |-> None, e |-> "", at |-> NoEntity]
    /\ fl_read = {}

\* epp_wrapper is not running
WrapIdle ==
    /\ wr_pc = "idle"
    /\ wr_flag = FALSE
    /\ wr_log = <<>>
    /\ wr_exc = "none"
    /\ wr_in_log = FALSE
    /\ wr_upload = FALSE
    /\ wr_msg = <<>>
    /\ wr_exit = "none"
    /\ wr_emitted = <<>>
    /\ wr_raised = "none"

\* idxs_from_label is not running
IdxIdle ==
    /\ ix_label = <<>>
    /\ ix_out = [k |-> "idle", idxs |-> <<>>, e |-> ""]

\* check_pair_distance is not running
PairIdle ==
    /\ cp_in = [k |-> "idle"]
    /\ cp_out = [k |-> "idle"]

\* get_manifests is not running
ManIdle ==
    /\ mf_proc = [k |-> "idle"]
    /\ mf_rows = <<>>
    /\ mf_pc = "idle"
    /\ mf_pos = [lane |-> <<>>, i |-> 0, j |-> 0]
    /\ mf_log = <<>>
    /\ mf_made = <<>>
    /\ mf_exc = "none"
    /\ mf_compared = <<>>

\* main of generate_aviti_run_manifest.py is not running
MainIdle ==
    /\ mn_pc = "idle"
    /\ mn_zip = <<>>

\* udf_tools.put is not running
PutIdle ==
    /\ pt_in = [k |-> "idle"]
    /\ pt_udf = [e \in {"out1"} |-> Dict(<<>>)]
    /\ pt_lims = [e \in {"out1"} |-> Dict(<<>>)]
    /\ pt_pc = "idle"
    /\ pt_out = [k |-> "idle"]

AuxIdle == FetchIdle /\ WrapIdle /\ IdxIdle /\ PairIdle /\ ManIdle /\ MainIdle /\ PutIdle

Init ==
    /\ \E sc \in Scenarios : hist = sc[1] /\ field = sc[2]
    /\ \E tv \in TargetVals, b \in SourceVals, c \in FallbackVals, anc \in AncestorVals :
           udf = InitialStore(hist, tv, b, c, anc)
    /\ step_type = ""
    /\ formulas = <<>>
    /\ iter = <<>>
    /\ pc = "idle"
    /\ fi = 0
    /\ pi = 0
    /\ parsed = NoParse
    /\ exc = "none"
    /\ trace = <<>>
    /\ p_in = <<>>
    /\ p_out = NoParse
    /\ AuxIdle

\* main up to the loop: get_step_type and get_formulas
Start ==
    /\ pc = "idle"
    /\ LET st == get_step_type(hist)
           fs == get_formulas(field)
       IN  IF st = "AssertionError"
           THEN /\ pc' = "failed" /\ exc' = "AssertionError" /\ fi' = 0
                /\ step_type' = "" /\ formulas' = <<>>
           ELSE /\ step_type' = st
                /\ formulas' = fs
                /\ exc' = "none"
                /\ IF fs = <<>> THEN pc' = "done" /\ fi' = 0 ELSE pc' = "parse" /\ fi' = 1
    /\ pi' = 0
    /\ parsed' = NoParse
    /\ iter' = <<>>
    /\ UNCHANGED <<udf, field, hist, trace, p_in, p_out, aux_vars>>

\* main ends after the first formula that was applied
AfterFormulaOnce == pc' = "done" /\ fi' = fi /\ pi' = 0

\* where main goes after the last iteration of apply_formula for formula fi
AfterFormula ==
    IF fi < Len(formulas)
    THEN pc' = "parse" /\ fi' = fi + 1 /\ pi' = 0
    ELSE pc' = "done" /\ fi' = fi /\ pi' = 0

\* parse_formula(formula) for the next formula of the loop of main, and the
\* entry into apply_formula
Parse ==
    /\ pc = "parse"
    /\ LET r == parse_formula(formulas[fi])
           its == Iterated(hist, step_type)
       IN  /\ parsed' = r
           /\ IF ~r.ok
              THEN pc' = "failed" /\ exc' = "AssertionError" /\ fi' = fi /\ pi' = 0
                   /\ iter' = iter
              ELSE /\ iter' = its
                   /\ IF its = <<>>
                      THEN AfterFormula /\ exc' = exc
                      ELSE pc' = "apply" /\ pi' = 1 /\ fi' = fi /\ exc' = exc
    /\ UNCHANGED <<udf, field, hist, step_type, formulas, trace, p_in, p_out, aux_vars>>

\* the state after one iteration on pairing t with outcome r; tg is the
\* target of the formula for t
AfterPairing(t, r, tg) ==
    /\ udf' = r.store
    /\ trace' = Append(trace,
           [f |-> fi, ftext |-> formulas[fi], phs |-> parsed.placeholders,
            i |-> pi, n |-> Len(iter), t |-> t, k |-> r.k, e |-> r.e,
            overwrite |-> Overwrite(parsed.fstring), pre |-> udf, post |-> r.store,
            val |-> r.val, text |-> r.text, vals |-> r.vals,
            obj |-> r.obj, name |-> r.name,
            target |-> tg,
            before |-> UdfGet(udf, tg.obj, tg.name),
            after |-> UdfGet(r.store, tg.obj, tg.name)])
    /\ IF r.k = "raised"
       THEN pc' = "failed" /\ exc' = r.e /\ fi' = fi /\ pi' = pi
       ELSE IF pi < Len(iter)
       THEN pc' = "apply" /\ pi' = pi + 1 /\ fi' = fi /\ exc' = exc
       ELSE AfterFormula /\ exc' = exc

\* one iteration of the loop of apply_formula
ApplyPairing ==
    /\ pc = "apply"
    /\ AfterPairing(iter[pi], apply_one(udf, hist, step_type, parsed, iter[pi]),
                    Target(hist, parsed, iter[pi]))
    /\ UNCHANGED <<field, hist, step_type, formulas, iter, parsed, p_in, p_out, aux_vars>>

Next == Start \/ Parse \/ ApplyPairing

Spec == Init /\ [][Next]_vars

\* no run evaluates text outside the modelled part of the expression language
NoUnmodelled == \A k \in 1..Len(trace) : trace[k].e # "Unmodelled"

---------------------------------------------------------------------------
(* parse_formula on its own, applied to formula texts.                     *)

Cat2(a, b) == a \o b
Cat3(a, b, c) == a \o b \o c
Spaced(op) == <<" ", op, " ">>
Call(f, args) == f \o <<"(">> \o args \o <<")">>

\* operands: placeholders, an integer, a decimal literal, the allowed strings
Operands ==
    { Ph(c_inp, <<n_B>>), Ph(Rec(c_outp), <<n_C, n_B>>), <<"2">>, <<"0", ".", "5">>,
      allowed_strings[1], allowed_strings[2] }

Operators == {"+", "-", "*", "/"}

ArgLists ==
    { Cat3(Ph(c_inp, <<n_B>>), <<",", " ">>, Ph(c_inp, <<n_C>>)),
      Cat3(Ph(c_inp, <<n_B>>), <<",", " ">>,
           Cat3(allowed_strings[2], <<",", " ">>, <<"2">>)) }

\* right-hand sides of the documented grammar
GoodRightHands ==
    Operands
    \cup { Cat3(a, Spaced(op), b) : a \in Operands, op \in Operators, b \in Operands }
    \cup { Cat3(<<"(", " ">>, Cat3(a, Spaced(op), Ph(c_inp, <<n_C>>)), <<" ", ")">>) :
             a \in Operands, op \in Operators }
    \cup { Call(allowed_functions[k], args) :
             k \in 1..Len(allowed_functions), args \in ArgLists }

\* formulas of the documented grammar: placeholder, = or ==, right-hand side
GoodFormulas ==
    { Cat3(Ph(c_outp, <<n_A>>), sep, rh) :
        sep \in {t_assign, t_assign_new}, rh \in GoodRightHands }

\* other texts a formula field can hold
OddRightHands ==
    { Call(Cat2(f_nM, f_nM), <<"2">>),
      Cat2(f_nM, <<"2">>),
      <<Q, "n", "g", "/", "n", "M", "u", "l", Q>>,
      <<"x">>,
      <<Q, "x", Q>>,
      Call(<<"e", "x", "i", "t">>, <<>>),
      Cat2(Ph(c_inp, <<n_B>>), <<";", " ", "2">>),
      Cat2(<<"{", "}", " ", "+", " ">>, Ph(c_inp, <<n_B>>)),
      Call(Cat2(f_ng_ul, <<"_">>), <<"2">>),
      Cat3(<<"2">>, f_nM, <<"2">>) }

OddFormulas ==
    { Cat3(Ph(c_outp, <<n_A>>), t_assign, rh) : rh \in OddRightHands }
    \cup { <<"2">>, Ph(c_inp, <<n_B>>) }

ParseInputs == GoodFormulas \cup OddFormulas

InitParse ==
    /\ p_in \in ParseInputs
    /\ p_out = NoParse
    /\ hist = BaseHist
    /\ field = <<>>
    /\ udf = [e \in Entities |-> Dict(<<>>)]
    /\ step_type = ""
    /\ formulas = <<>>
    /\ iter = <<>>
    /\ pc = "text"
    /\ fi = 0
    /\ pi = 0
    /\ parsed = NoParse
    /\ exc = "none"
    /\ trace = <<>>
    /\ AuxIdle

\* parse_formula(p_in)
ParseText ==
    /\ pc = "text"
    /\ p_out = NoParse
    /\ p_out' = parse_formula(p_in)
    /\ UNCHANGED <<engine_vars, p_in, aux_vars>>

NextParse == ParseText

SpecParse == InitParse /\ [][NextParse]_vars

---------------------------------------------------------------------------
(* fetch_last on its own: one action per iteration of its while loop.      *)

\* fetch_last's n is only compared with 1; it is counted up to MaxVisits
MaxVisits == 5

FArts == {"s", "a", "b", "c", "r"}
FSteps == {"Q1", "Q2"}

\* a history of two earlier steps: their input-output maps and, in made, the
\* step each artifact is the output of (parent_process); r is a result file
FHist(m1, m2, made) ==
    [maps |-> [q \in FSteps |-> IF q = "Q1" THEN m1 ELSE m2],
     parent |-> [x \in FArts |-> IF x \in DOMAIN made THEN made[x] ELSE NoEntity],
     type |-> [x \in FArts |-> IF x = "r" THEN "ResultFile" ELSE "Analyte"],
     name |-> [x \in FArts |->
                  CASE x = "s" -> 1 [] x = "a" -> 2 [] x = "b" -> 3 [] x = "c" -> 4
                    [] OTHER -> 5]]

\* b --Q2--> a --Q1--> s
H_chain == FHist(<< <<"a", "s">> >>, << <<"b", "a">> >>, ("s" :> "Q1") @@ ("a" :> "Q2"))
\* s has no parent process
H_orphan == FHist(<< <<"a", "c">> >>, <<>>, ("c" :> "Q1"))
\* s is a pool: Q1 pairs two inputs with it
H_pool == FHist(<< <<"a", "s">>, <<"b", "s">> >>, <<>>, ("s" :> "Q1"))
\* Q1 is the parent process of s, but none of its pairings has s as output
H_unlinked == FHist(<< <<"a", "c">> >>, <<>>, ("s" :> "Q1") @@ ("c" :> "Q1"))
\* Q1 has no pairing between analytes
H_nolinks == FHist(<< <<"a", "r">> >>, <<>>, ("s" :> "Q1") @@ ("r" :> "Q1"))
\* Q1 has an input, b, that it pairs with no output
H_loose == FHist(<< <<"a", "s">>, <<"b", NoEntity>> >>, <<>>, ("s" :> "Q1"))
\* the same one step further back
H_loose_far ==
    FHist(<< <<"a", "s">> >>, << <<"b", "a">>, <<"c", NoEntity>> >>,
          ("s" :> "Q1") @@ ("a" :> "Q2"))
\* Q1 made s from no input
H_noinput == FHist(<< <<NoEntity, "s">> >>, <<>>, ("s" :> "Q1"))
\* following the linked inputs back from s returns to s
H_cycle == FHist(<< <<"a", "s">> >>, << <<"s", "a">> >>, ("s" :> "Q1") @@ ("a" :> "Q2"))

FetchHists ==
    {H_chain, H_orphan, H_pool, H_unlinked, H_nolinks, H_loose, H_loose_far, H_noinput,
     H_cycle}

\* UDF dictionaries: A on the artifacts of onA, B on those of onB, every value
\* telling the artifact and the UDF it is the value of
FStore(h, onA, onB) ==
    [x \in FArts |->
        Dict(<< <<n_A, IF x \in onA THEN IntV(h.name[x]) ELSE None>>,
                <<n_B, IF x \in onB THEN IntV(10 + h.name[x]) ELSE None>> >>)]

\* what fetch_last returned or raised; at is the artifact the value was found on
Ret(k, v, e, at) == [k |-> k, v |-> v, e |-> e, at |-> at]
NoRet == Ret("none", None, "", NoEntity)

\* the on_fail argument: an exception class, Raises(e), or a value, Got(v)
OnFails == {Raises("AssertionError"), Got(None), Got(IntV(0))}

\* the outcome of the handler  except AssertionError  of fetch_last
on_assertion(on_fail) ==
    IF on_fail.k = "raise" THEN Ret("raise", None, on_fail.e, NoEntity)
    ELSE Ret("val", on_fail.v, "", NoEntity)

\* for target_udf in target_udfs: if target_udf in list_udfs(current_art):
\* the index of the first target UDF the dictionary holds, 0 when it holds none
RECURSIVE FirstHeld(_, _, _)
FirstHeld(d, target_udfs, i) ==
    IF i > Len(target_udfs) THEN 0
    ELSE IF target_udfs[i] \in DOMAIN d THEN i
    ELSE FirstHeld(d, target_udfs, i + 1)

\* whether the loop over target_udfs may return at this artifact
MayReturn(include_current, n) == ~(~include_current /\ n = 1)

\* how the walk goes on from current_art once no value was returned there:
\* [k |-> "next", art] or [k |-> "stop", out]
fetch_link(h, on_fail, current_art, pp, linked) ==
    IF pp = NoEntity THEN [k |-> "stop", out |-> on_assertion(on_fail), art |-> NoEntity]
    ELSE IF get_art_tuples(h, pp) = <<>>
    THEN [k |-> "stop", out |-> Ret("raise", None, "NotImplementedError", NoEntity),
          art |-> NoEntity]
    ELSE IF ~linked.ok
    THEN [k |-> "stop", out |-> Ret("raise", None, "TypeError", NoEntity), art |-> NoEntity]
    ELSE IF Len(linked.arts) = 1
    THEN [k |-> "next", out |-> NoRet, art |-> linked.arts[1]]
    ELSE [k |-> "stop", out |-> on_assertion(on_fail), art |-> NoEntity]

\* one iteration of the while loop of fetch_last at current_art
fetch_iter(h, store, args, current_art, n, i) ==
    IF i > 0 /\ MayReturn(args.include_current, n)
    THEN [k |-> "stop", art |-> NoEntity,
          out |-> Ret("val", store[current_art][args.target_udfs[i]], "", current_art)]
    ELSE fetch_link(h, args.on_fail, current_art, h.parent[current_art],
                    IF h.parent[current_art] = NoEntity
                    THEN [ok |-> TRUE, arts |-> <<>>]
                    ELSE LinkedInputs(get_art_tuples(h, h.parent[current_art]), 1,
                                      current_art))

\* the formula engine and the parse_formula harness are not running
EngineIdle ==
    /\ hist = BaseHist
    /\ field = <<>>
    /\ udf = [e \in Entities |-> Dict(<<>>)]
    /\ step_type = ""
    /\ formulas = <<>>
    /\ iter = <<>>
    /\ pc = "off"
    /\ fi = 0
    /\ pi = 0
    /\ parsed = NoParse
    /\ exc = "none"
    /\ trace = <<>>
    /\ p_in = <<>>
    /\ p_out = NoParse

\* a call fetch_last(target_art, target_udfs, include_current, on_fail=on_fail)
InitFetch ==
    /\ EngineIdle
    /\ MainIdle
    /\ PutIdle
    /\ PairIdle
    /\ ManIdle
    /\ WrapIdle
    /\ IdxIdle
    /\ fl_hist \in FetchHists
    /\ \E onA \in SUBSET {"s", "a", "b"}, onB \in {{}, {"s"}, {"a"}} :
           fl_udf = FStore(fl_hist, onA, onB)
    /\ \E tu \in {<<n_A>>, <<n_B, n_A>>}, ic \in BOOLEAN, of \in OnFails :
           fl_args = [target_art |-> "s", target_udfs |-> tu, include_current |-> ic,
                      on_fail |-> of]
    /\ fl_art = "s"
    /\ fl_n = 1
    /\ fl_pc = "loop"
    /\ fl_ret = NoRet
    /\ fl_read = {}

\* the state after an iteration with outcome r
AfterIter(r) ==
    IF r.k = "next"
    THEN /\ fl_art' = r.art
         /\ fl_n' = IF fl_n < MaxVisits THEN fl_n + 1 ELSE fl_n
         /\ fl_pc' = "loop"
         /\ fl_ret' = fl_ret
    ELSE /\ fl_art' = fl_art
         /\ fl_n' = fl_n
         /\ fl_pc' = IF r.out.k = "raise" THEN "raised" ELSE "returned"
         /\ fl_ret' = r.out

\* one iteration of  while True  in fetch_last
FetchIter ==
    /\ fl_pc = "loop"
    /\ fl_read' = fl_read \cup {fl_art}
    /\ AfterIter(fetch_iter(fl_hist, fl_udf, fl_args, fl_art, fl_n,
                            FirstHeld(fl_udf[fl_art], fl_args.target_udfs, 1)))
    /\ UNCHANGED <<not_fetch, fl_hist, fl_udf, fl_args>>

NextFetch == FetchIter

SpecFetch == InitFetch /\ [][NextFetch]_vars

\* the interpreter runs the loop for as long as it has not returned or raised
FairFetch == SpecFetch /\ WF_vars(FetchIter)

---------------------------------------------------------------------------
(* epp_decorator: the wrapper around a script's main, one action per step  *)
(* of epp_wrapper and per thing the wrapped main can do.                   *)

\* the number of log records a main emits is bounded here
MaxRecords == 2

\* logging's numeric levels
levelno(level) ==
    CASE level = "DEBUG" -> 10 [] level = "INFO" -> 20 [] level = "WARNING" -> 30
      [] level = "ERROR" -> 40 [] OTHER -> 50

Levels == {"DEBUG", "INFO", "WARNING", "ERROR"}

\* the logger a record is emitted on: the root logger installed by the
\* wrapper (logging.warning(...), logging.getLogger()) or a named logger
\* (logging.getLogger(name)), whose records TrackingRootLogger.handle never sees
Loggers == {"root", "named"}

\* what a main can raise: exceptions derived from Exception, and those derived
\* from BaseException only
Exceptions == {"AssertionError", "ValueError"}
BaseExceptions == {"SystemExit(0)", "SystemExit(2)", "KeyboardInterrupt"}

LogRecord(level, msg, on) == [level |-> level, msg |-> msg, on |-> on]

\* TrackingRootLogger.handle(record): the flag after handling a record
handle(flag, record) == flag \/ levelno(record.level) >= levelno("WARNING")

\* the root logger has level INFO: Logger.isEnabledFor(level)
isEnabledFor(level) == levelno(level) >= levelno("INFO")

\* the state after a record is emitted on a logger
Emit(record) ==
    /\ wr_emitted' = Append(wr_emitted, record)
    /\ IF record.on = "root" /\ isEnabledFor(record.level)
       THEN /\ wr_flag' = handle(wr_flag, record)
            /\ wr_log' = Append(wr_log, record)
       ELSE UNCHANGED <<wr_flag, wr_log>>

\* the exit status the interpreter gives for an exception that leaves the program
ExitStatusOf(e) ==
    CASE e = "SystemExit(0)" -> 0
      [] e = "SystemExit(2)" -> 2
      [] OTHER -> 130

InitWrap ==
    /\ EngineIdle
    /\ MainIdle
    /\ PutIdle
    /\ PairIdle
    /\ ManIdle
    /\ FetchIdle
    /\ IdxIdle
    /\ wr_pc = "setup"
    /\ wr_flag = FALSE
    /\ wr_log = <<>>
    /\ wr_exc = "none"
    /\ wr_in_log = FALSE
    /\ wr_upload = FALSE
    /\ wr_msg = <<>>
    /\ wr_exit = "none"
    /\ wr_emitted = <<>>
    /\ wr_raised = "none"

\* epp_wrapper up to the call of script_main: the logger is installed, and a
\* warning is logged when no EPP user is found
WrapSetup ==
    /\ wr_pc = "setup"
    /\ \E found \in BOOLEAN :
           IF found THEN UNCHANGED <<wr_flag, wr_log, wr_emitted>>
           ELSE Emit(LogRecord("WARNING", "No EPP user found", "root"))
    /\ wr_pc' = "main"
    /\ UNCHANGED <<not_wrap, wr_exc, wr_in_log, wr_upload, wr_msg, wr_exit, wr_raised>>

\* script_main emits a log record
MainLog ==
    /\ wr_pc = "main"
    /\ Len(wr_emitted) < MaxRecords
    /\ \E level \in Levels, on \in Loggers : Emit(LogRecord(level, "main", on))
    /\ UNCHANGED <<not_wrap, wr_pc, wr_exc, wr_in_log, wr_upload, wr_msg, wr_exit, wr_raised>>

\* script_main returns
MainReturn ==
    /\ wr_pc = "main"
    /\ wr_pc' = "check"
    /\ UNCHANGED <<not_wrap, wr_flag, wr_log, wr_exc, wr_in_log, wr_upload, wr_msg, wr_exit,
                   wr_emitted, wr_raised>>

\* script_main raises an Exception:  except Exception as e: ... logger.error(e)
MainRaise ==
    /\ wr_pc = "main"
    /\ \E e \in Exceptions :
           /\ wr_raised' = e
           /\ wr_exc' = e
           /\ Emit(LogRecord("ERROR", e, "root"))
    /\ wr_pc' = "check"
    /\ UNCHANGED <<not_wrap, wr_in_log, wr_upload, wr_msg, wr_exit>>

\* script_main raises what  except Exception  does not catch: it leaves
\* epp_wrapper and ends the process
MainAbort ==
    /\ wr_pc = "main"
    /\ \E e \in BaseExceptions :
           /\ wr_raised' = e
           /\ wr_exit' = ExitStatusOf(e)
    /\ wr_pc' = "exited"
    /\ UNCHANGED <<not_wrap, wr_flag, wr_log, wr_exc, wr_in_log, wr_upload, wr_msg, wr_emitted>>

\* errors_or_warnings_in_log = logger.errors_or_warnings; logging.shutdown()
WrapCheck ==
    /\ wr_pc = "check"
    /\ wr_in_log' = wr_flag
    /\ wr_pc' = "upload"
    /\ UNCHANGED <<not_wrap, wr_flag, wr_log, wr_exc, wr_upload, wr_msg, wr_exit, wr_emitted,
                   wr_raised>>

\* upload_file(...) in try / except: it succeeds or raises
WrapUpload ==
    /\ wr_pc = "upload"
    /\ \E failed \in BOOLEAN : wr_upload' = failed
    /\ wr_pc' = "final"
    /\ UNCHANGED <<not_wrap, wr_flag, wr_log, wr_exc, wr_in_log, wr_msg, wr_exit, wr_emitted,
                   wr_raised>>

\* final_message_lines
final_message(script_exception, in_log, upload_failed) ==
    <<IF script_exception # "none" THEN "Script failed."
      ELSE "Script finished successfully.">>
    \o (IF in_log THEN <<"Errors or warnings occurred, please check log.">> ELSE <<>>)
    \o (IF upload_failed THEN <<"Log upload failed.">> ELSE <<>>)

\* the final message and sys.exit
WrapExit ==
    /\ wr_pc = "final"
    /\ wr_msg' = final_message(wr_exc, wr_in_log, wr_upload)
    /\ wr_exit' = IF wr_in_log THEN 1 ELSE 0
    /\ wr_pc' = "exited"
    /\ UNCHANGED <<not_wrap, wr_flag, wr_log, wr_exc, wr_in_log, wr_upload, wr_emitted, wr_raised>>

NextWrap ==
    \/ WrapSetup
    \/ MainLog
    \/ MainReturn
    \/ MainRaise
    \/ MainAbort
    \/ WrapCheck
    \/ WrapUpload
    \/ WrapExit

SpecWrap == InitWrap /\ [][NextWrap]_vars

---------------------------------------------------------------------------
(* idxs_from_label (generate_aviti_run_manifest.py): from a reagent label  *)
(* to the list of its indices.                                             *)

Bases == {"A", "T", "C", "G"}
Wells == {"A", "B", "C", "D", "E", "F", "G", "H"}
Rows == Wells \cup {"I", "J", "K", "L", "M", "N", "O", "P"}

\* str.maketrans("ACGT", "TGCA")
Complement(c) ==
    CASE c = "A" -> "T" [] c = "C" -> "G" [] c = "G" -> "C" [] c = "T" -> "A"
      [] OTHER -> c

\* the complement without the reversal
revcomp_unreversed(seq) == [i \in 1..Len(seq) |-> Complement(seq[i])]

\* revcomp(seq): seq.translate(...)[::-1]
revcomp(seq) == [i \in 1..Len(seq) |-> Complement(seq[Len(seq) + 1 - i])]

\* the character at position i of s, "" past its end
At(s, i) == IF i >= 1 /\ i <= Len(s) THEN s[i] ELSE ""

k_SI == <<"S", "I">>
k_SMARTSEQ == <<"S", "M", "A", "R", "T", "S", "E", "Q">>
k_GA == <<"G", "A">>
k_NA == <<"N", "A">>
k_TT == <<"T", "T">>
k_NT == <<"N", "T">>
k_NN == <<"N", "N">>
k_TN == <<"T", "N">>
k_TS == <<"T", "S">>

\* the alternatives of TENX_SINGLE_PAT and of TENX_DUAL_PAT
SingleKinds == {k_GA, k_NA}
DualKinds == {k_TT, k_NT, k_NN, k_TN, k_TS}

\* SI-(?:kinds)-[A-H][1-9][0-2]?  matched at position i of s: the position of
\* the last character matched, 0 when there is no match at i
MatchTenX(s, i, kinds) ==
    IF ~IsAt(s, i, k_SI) THEN 0
    ELSE IF ~(\E k \in kinds : IsAt(s, i + 3, k \o <<"-">>)) THEN 0
    ELSE IF ~(At(s, i + 6) \in Wells /\ At(s, i + 7) \in (Digits \ {"0"})) THEN 0
    ELSE IF At(s, i + 8) \in {"0", "1", "2"} THEN i + 8
    ELSE i + 7

\* PAT.findall(label)[0] for the two 10X patterns: the first match from i on,
\* <<>> when findall gives an empty list
RECURSIVE FindTenX(_, _, _)
FindTenX(s, i, kinds) ==
    IF i > Len(s) THEN <<>>
    ELSE IF MatchTenX(s, i, kinds) # 0 THEN SubSeq(s, i, MatchTenX(s, i, kinds))
    ELSE FindTenX(s, i + 1, kinds)

\* [1-9][0-9]?[A-P]  matched at position q
MatchWell(s, q) ==
    IF At(s, q) \notin (Digits \ {"0"}) THEN 0
    ELSE IF At(s, q + 1) \in Digits /\ At(s, q + 2) \in Rows THEN q + 2
    ELSE IF At(s, q + 1) \in Rows THEN q + 1
    ELSE 0

\* SMARTSEQ[1-9]?-[1-9][0-9]?[A-P]  matched at position i
MatchSmartSeq(s, i) ==
    IF ~IsAt(s, i, k_SMARTSEQ) THEN 0
    ELSE IF At(s, i + 8) \in (Digits \ {"0"}) /\ At(s, i + 9) = "-" THEN MatchWell(s, i + 10)
    ELSE IF At(s, i + 8) = "-" THEN MatchWell(s, i + 9)
    ELSE 0

\* SMARTSEQ_PAT.findall(label)[0]
RECURSIVE FindSmartSeq(_, _)
FindSmartSeq(s, i) ==
    IF i > Len(s) THEN <<>>
    ELSE IF MatchSmartSeq(s, i) # 0 THEN SubSeq(s, i, MatchSmartSeq(s, i))
    ELSE FindSmartSeq(s, i + 1)

\* the position after the run of characters of set cs that starts at i
RECURSIVE RunEnd(_, _, _)
RunEnd(s, i, cs) == IF At(s, i) \in cs THEN RunEnd(s, i + 1, cs) ELSE i

\* the two groups of  ([ATCG]{4,}N*)-?([ATCG]*)  matched at position i, given
\* the ends b of the run of bases and n of the Ns after it
IdxGroups(s, i, b, n) ==
    <<SubSeq(s, i, n - 1),
      IF At(s, n) = "-" THEN SubSeq(s, n + 1, RunEnd(s, n + 1, Bases) - 1)
      ELSE SubSeq(s, n, RunEnd(s, n, Bases) - 1)>>

\* IDX_PAT.findall(label): the pattern has two groups, so findall gives a
\* list of 2-tuples; [found, match] with match the first of them
RECURSIVE FindIdx(_, _)
FindIdx(s, i) ==
    IF i > Len(s) THEN [found |-> FALSE, match |-> <<>>]
    ELSE IF RunEnd(s, i, Bases) - i >= 4
    THEN [found |-> TRUE,
          match |-> IdxGroups(s, i, RunEnd(s, i, Bases),
                              RunEnd(s, RunEnd(s, i, Bases), {"N"}))]
    ELSE FindIdx(s, i + 1)

\* str.upper() on the letters the labels here are written with
UpperChar(c) ==
    CASE c = "n" -> "N" [] c = "o" -> "O" [] c = "i" -> "I" [] c = "d" -> "D"
      [] c = "e" -> "E" [] c = "x" -> "X" [] OTHER -> c

\* label.replace(",", "").upper()
Normalised(label) ==
    LET kept == SelectSeq(label, LAMBDA c : c # ",")
    IN  [i \in 1..Len(kept) |-> UpperChar(kept[i])]

k_NOINDEX == <<"N", "O", "I", "N", "D", "E", "X">>

\* the elements of the result: a bare index, or a tuple of two
Bare(idx) == [t |-> "str", i1 |-> idx, i2 |-> <<>>]
Pair(i7, i5) == [t |-> "tuple", i1 |-> i7, i2 |-> i5]

Returns(idxs) == [k |-> "list", idxs |-> idxs, e |-> ""]
Fails(e) == [k |-> "raise", idxs |-> <<>>, e |-> e]
NoIdxs == [k |-> "none", idxs |-> <<>>, e |-> ""]

\* the reference table Chromium_10X_indexes: for a single-index kit its four
\* indices, for a dual-index kit its i7 and its two i5 indices
Chromium_10X_indexes(kit) ==
    CASE kit = <<"S", "I", "-", "G", "A", "-", "A", "1">> ->
            <<<<"G", "G", "T", "T", "T", "A", "C", "T">>, <<"C", "T", "A", "A", "A", "C", "G", "G">>, <<"T", "C", "G", "G", "C", "G", "T", "C">>, <<"A", "A", "C", "C", "G", "T", "A", "A">>>>
      [] kit = <<"S", "I", "-", "N", "A", "-", "B", "1", "2">> ->
            <<<<"A", "A", "A", "C", "G", "G", "C", "G">>, <<"C", "C", "T", "A", "C", "C", "A", "T">>, <<"G", "G", "C", "G", "T", "T", "T", "C">>, <<"T", "T", "G", "T", "A", "A", "G", "A">>>>
      [] kit = <<"S", "I", "-", "T", "T", "-", "A", "1">> -> <<<<"G", "T", "A", "A", "C", "A", "T", "G", "C", "G">>, <<"A", "G", "T", "G", "T", "T", "A", "C", "C", "T">>, <<"A", "G", "G", "T", "A", "A", "C", "A", "C", "T">>>>
      [] kit = <<"S", "I", "-", "N", "T", "-", "H", "1", "0">> -> <<<<"A", "C", "G", "G", "C", "T", "G", "T", "T", "T">>, <<"C", "C", "A", "T", "T", "C", "G", "A", "G", "G">>, <<"C", "C", "T", "C", "G", "A", "A", "T", "G", "G">>>>
      [] kit = <<"S", "I", "-", "N", "N", "-", "C", "3">> -> <<<<"C", "C", "A", "A", "G", "A", "T", "T", "G", "A">>, <<"G", "T", "T", "A", "G", "C", "A", "T", "A", "C">>, <<"G", "T", "A", "T", "G", "C", "T", "A", "A", "C">>>>
      [] kit = <<"S", "I", "-", "T", "N", "-", "D", "7">> -> <<<<"T", "G", "G", "C", "C", "T", "T", "A", "A", "C">>, <<"A", "A", "C", "G", "A", "T", "T", "C", "C", "G">>, <<"C", "G", "G", "A", "A", "T", "C", "G", "T", "T">>>>
      [] kit = <<"S", "I", "-", "T", "S", "-", "E", "1", "2">> -> <<<<"G", "A", "T", "T", "C", "G", "A", "G", "G", "A">>, <<"T", "C", "C", "A", "G", "T", "A", "G", "C", "A">>, <<"T", "G", "C", "T", "A", "C", "T", "G", "G", "A">>>>
      [] OTHER -> <<>>

\* the reference table SMARTSEQ3_INDEXES: for a well its i7 and its i5 indices
SMARTSEQ3_INDEXES(well) ==
    CASE well = <<"S", "M", "A", "R", "T", "S", "E", "Q", "-", "1", "A">> -> <<<<<<"C", "A", "T", "T", "C", "A", "G", "T">>, <<"T", "T", "A", "C", "G", "C", "C", "A">>>>, <<<<"G", "G", "A", "A", "G", "C", "C", "T">>>>>>
      [] well = <<"S", "M", "A", "R", "T", "S", "E", "Q", "3", "-", "1", "2", "P">> -> <<<<<<"A", "A", "C", "G", "T", "T", "A", "G">>>>, <<<<"C", "T", "G", "A", "T", "C", "G", "A">>, <<"T", "G", "A", "C", "A", "G", "T", "C">>>>>>
      [] OTHER -> <<>>

\* for i7_idx in ...[0]: for i5_idx in ...[1]: idxs.append((i7_idx, revcomp(i5_idx)))
SmartSeqPairs(i7s, i5s) ==
    [n \in 1..(Len(i7s) * Len(i5s)) |->
        Pair(i7s[((n - 1) \div Len(i5s)) + 1], revcomp(i5s[((n - 1) % Len(i5s)) + 1]))]

\* the branch for 10X single indexes
tenx_single(match) ==
    IF Chromium_10X_indexes(match) = <<>> THEN Fails("KeyError")
    ELSE Returns([n \in 1..Len(Chromium_10X_indexes(match)) |->
                     Bare(Chromium_10X_indexes(match)[n])])

\* the branch for 10X dual indexes
tenx_dual(match) ==
    IF Chromium_10X_indexes(match) = <<>> THEN Fails("KeyError")
    ELSE Returns(<<Pair(Chromium_10X_indexes(match)[1],
                        revcomp(Chromium_10X_indexes(match)[2]))>>)

\* the branch for SS3 indexes
smartseq(match) ==
    IF SMARTSEQ3_INDEXES(match) = <<>> THEN Fails("KeyError")
    ELSE Returns(SmartSeqPairs(SMARTSEQ3_INDEXES(match)[1], SMARTSEQ3_INDEXES(match)[2]))

\* an empty list returned instead of raising
no_index_empty(label) == Returns(<<>>)

\* the branch for NoIndex cases
no_index(label) == Fails("AssertionError: NoIndex cases not allowed.")

\* the branch for ordinary indexes; match is the 2-tuple that findall gave.
\* "-" in match  asks whether the tuple has the element "-", and a tuple
\* has no split
ordinary(match) ==
    IF \E n \in 1..Len(match) : match[n] = <<"-">> THEN Fails("AttributeError")
    ELSE Returns(<<Pair(match[1], match[2])>>)

\* idxs_from_label(label)
idxs_from_label(label) ==
    IF FindTenX(label, 1, SingleKinds) # <<>>
    THEN tenx_single(FindTenX(label, 1, SingleKinds))
    ELSE IF FindTenX(label, 1, DualKinds) # <<>>
    THEN tenx_dual(FindTenX(label, 1, DualKinds))
    ELSE IF FindSmartSeq(label, 1) # <<>>
    THEN smartseq(FindSmartSeq(label, 1))
    ELSE IF Normalised(label) = k_NOINDEX \/ Normalised(label) = <<>>
    THEN no_index(label)
    ELSE IF FindIdx(label, 1).found
    THEN ordinary(FindIdx(label, 1).match)
    ELSE Fails("AssertionError: Could not parse index")

\* inline index sequences
InlineSequences == {<<"A", "C", "G", "T", "A", "C", "G", "T">>, <<"T", "T", "G", "G", "C", "C", "A", "A">>, <<"A", "A", "C", "C">>, <<"A", "C", "G">>, <<"A", "C", "G", "T", "N", "N">>}

\* labels that hold one sequence, or two joined by a dash
InlineSingles == InlineSequences \cup {<<"x", " ", "A", "C", "G", "T", "A", "C", "G", "T">>, <<"A", "C", "G", "T", "A", "C", "G", "T", "-">>, <<"A", "C", "G", "T", "A", "C", "G", "T", "T", "T", "G", "G">>}
InlinePairs == { Cat3(a, <<"-">>, b) : a \in InlineSequences, b \in InlineSequences }

KitCodes ==
    {<<"S", "I", "-", "G", "A", "-", "A", "1">>, <<"S", "I", "-", "N", "A", "-", "B", "1", "2">>, <<"S", "I", "-", "T", "T", "-", "A", "1">>, <<"S", "I", "-", "N", "T", "-", "H", "1", "0">>, <<"S", "I", "-", "N", "N", "-", "C", "3">>, <<"S", "I", "-", "T", "N", "-", "D", "7">>,
     <<"S", "I", "-", "T", "S", "-", "E", "1", "2">>, <<"S", "M", "A", "R", "T", "S", "E", "Q", "-", "1", "A">>, <<"S", "M", "A", "R", "T", "S", "E", "Q", "3", "-", "1", "2", "P">>}

\* a kit code as the label, or with text before and after it
KitLabels ==
    { Cat3(pre, kit, post) :
        pre \in {<<>>, <<"x", " ">>}, kit \in KitCodes,
        post \in {<<>>, <<" ", "(", "A", "C", "G", "T", "A", "C", "G", "T", "-", "T", "T", "G", "G", "C", "C", "A", "A", ")">>} }
    \cup {<<"S", "I", "-", "T", "T", "-", "A", "1", "3">>, <<"S", "I", "-", "X", "X", "-", "A", "1">>, <<"S", "I", "-", "T", "T", "-", "A", "2">>, <<"S", "M", "A", "R", "T", "S", "E", "Q", "3", "-", "1", "2", "Q">>}

NoIndexLabels ==
    {<<"N", "o", "I", "n", "d", "e", "x">>, <<"N", "O", "I", "N", "D", "E", "X">>, <<"n", "o", "i", "n", "d", "e", "x">>, <<"N", "o", ",", "I", "n", "d", "e", "x">>, <<",", "N", "o", "I", "n", "d", "e", "x", ",">>, <<>>, <<",">>, <<",", ",">>}

Labels == InlineSingles \cup InlinePairs \cup KitLabels \cup NoIndexLabels

InitIdx ==
    /\ EngineIdle
    /\ MainIdle
    /\ PutIdle
    /\ PairIdle
    /\ ManIdle
    /\ FetchIdle
    /\ WrapIdle
    /\ ix_label \in Labels
    /\ ix_out = NoIdxs

\* the call idxs_from_label(ix_label)
IdxsFromLabel ==
    /\ ix_out = NoIdxs
    /\ ix_out' = idxs_from_label(ix_label)
    /\ UNCHANGED <<not_idx, ix_label>>

NextIdx == IdxsFromLabel

SpecIdx == InitIdx /\ [][NextIdx]_vars

---------------------------------------------------------------------------
(* What the properties below speak about, stated from the store and the    *)
(* history alone.                                                          *)

\* the pairing of record r has every artifact the step type needs
PairingComplete(r) ==
    /\ r.t[1] # NoEntity
    /\ step_type \in {"Standard", "Add Labels"} => r.t[2] # NoEntity

IsRecursive(ph) == ph[1] = "_"

\* placeholder ph selects an entity for pairing t; a recursive one an artifact
Selectable(ph, t) ==
    /\ QuotedNames(ph, 1) # <<>>
    /\ EntityOf(hist, ph, t) # NoEntity
    /\ IsRecursive(ph) => EntityOf(hist, ph, t) \in Arts

\* the inputs that the step which made art links to it
LinksTo(art) ==
    LET pp == hist.parent[art]
    IN  IF pp = NoEntity THEN {}
        ELSE { k \in 1..Len(hist.maps[pp]) : hist.maps[pp][k][2] = art }

\* the value of name on art or, failing that, on the nearest ancestor of art
\* that defines it along the chain of single links
RECURSIVE AlongChain(_, _, _, _)
AlongChain(store, art, name, hops) ==
    IF name \in DOMAIN store[art] THEN store[art][name]
    ELSE IF Cardinality(LinksTo(art)) # 1 \/ hops = 0 THEN None
    ELSE LET k == CHOOSE k \in LinksTo(art) : TRUE
         IN  AlongChain(store, hist.maps[hist.parent[art]][k][1], name, hops - 1)

\* the value of the k-th name of ph, None when it is not defined
NameValue(store, ph, t, k) ==
    LET nm == QuotedNames(ph, 1)[k]
        e == EntityOf(hist, ph, t)
    IN  IF IsRecursive(ph) THEN AlongChain(store, e, nm, MaxHops)
        ELSE UdfGet(store, e, nm)

DefinedNames(store, ph, t) ==
    { k \in 1..Len(QuotedNames(ph, 1)) : NameValue(store, ph, t, k) # None }

\* the value of the first defined name of ph, None when no name is defined
FirstDefined(store, ph, t) ==
    LET d == DefinedNames(store, ph, t)
    IN  IF d = {} THEN None
        ELSE NameValue(store, ph, t, CHOOSE k \in d : \A m \in d : k <= m)

\* a value as get_val_from_placeholder hands it to eval_rh
AsLiteral(v) == IF v.t = "str" THEN StrV(<<Q>> \o v.s \o <<Q>>) ELSE v

\* the right-hand placeholders of record r, and whether they can be resolved
RhIndex(r) == 2..Len(r.phs)
RhSelectable(r) == PairingComplete(r) /\ \A j \in RhIndex(r) : Selectable(r.phs[j], r.t)
RhUnresolvable(r) == \E j \in RhIndex(r) : FirstDefined(r.pre, r.phs[j], r.t) = None

\* the value evaluated for record r was computed (resolution and eval succeeded)
Evaluated(r) == r.val # None

---------------------------------------------------------------------------
(* C5 *)
(* For every right-hand placeholder the value resolved is that of the     *)
(* first name of its priority list that is defined on the selected entity *)
(* (for a recursive placeholder: along the traceback chain), whatever the *)
(* later names hold; SkipCalculation is signalled only when a placeholder *)
(* has no defined name.                                                   *)
C5_FirstDefinedNameWins ==
    \A k \in 1..Len(trace) :
        LET r == trace[k]
        IN  RhSelectable(r) =>
              IF RhUnresolvable(r) THEN r.k = "skip_rhs"
              ELSE /\ r.k # "skip_rhs"
                   /\ r.vals = [j \in 1..(Len(r.phs) - 1) |->
                                   AsLiteral(FirstDefined(r.pre, r.phs[j + 1], r.t))]

---------------------------------------------------------------------------
(* C6 *)
(* When a right-hand placeholder of the formula is unresolvable for a     *)
(* pairing, that pairing changes no attribute, raises nothing, and the    *)
(* run goes on with the next pairing, or with the next formula after the  *)
(* last pairing.                                                          *)
C6_UnresolvedIsSkipped ==
    \A k \in 1..Len(trace) :
        LET r == trace[k]
        IN  RhSelectable(r) /\ RhUnresolvable(r) =>
              /\ r.k = "skip_rhs"
              /\ r.post = r.pre
              /\ r.after = r.before
              /\ k < Len(trace) =>
                    IF r.i < r.n THEN trace[k + 1].f = r.f /\ trace[k + 1].i = r.i + 1
                    ELSE trace[k + 1].f = r.f + 1 /\ trace[k + 1].i = 1
              /\ k = Len(trace) =>
                    IF r.i < r.n THEN pc = "apply" /\ fi = r.f /\ pi = r.i + 1 /\ exc = "none"
                    ELSE \/ pc = "done" /\ r.f = Len(formulas) /\ exc = "none"
                         \/ pc \in {"parse", "apply"} /\ fi = r.f + 1 /\ exc = "none"
                         \/ pc = "failed" /\ fi = r.f + 1 /\ ~parsed.ok

---------------------------------------------------------------------------
(* C1 *)
(* In a Standard or Add Labels step, when the right-hand side resolves    *)
(* and evaluates:  =  always sets the target to the evaluated value;  ==  *)
(* sets it only when the target is undefined, and otherwise leaves the    *)
(* store as it was and skips without raising.                             *)
C1_WritePolicy ==
    step_type \in {"Standard", "Add Labels"} =>
      \A k \in 1..Len(trace) :
          LET r == trace[k]
          IN  PairingComplete(r) /\ Evaluated(r) =>
                IF r.overwrite \/ r.before = None
                THEN r.k = "assigned" /\ r.after = r.val
                ELSE r.k # "raised" /\ r.post = r.pre

---------------------------------------------------------------------------
(* C2 *)
(* In a step without outputs a  ==  formula leaves an already defined     *)
(* target attribute (on the input or on the step) unchanged, and a value  *)
(* assigned to a  step[...]  target is stored on the step.                *)
C2_NoOutputsWritePolicy ==
    step_type = "No Outputs" =>
      \A k \in 1..Len(trace) :
          LET r == trace[k]
          IN  PairingComplete(r) /\ Evaluated(r) /\ r.target.obj # NoEntity =>
                /\ ~r.overwrite /\ r.before # None => r.after = r.before
                /\ r.target.obj = hist.step /\ (r.overwrite \/ r.before = None) =>
                      UdfGet(r.post, hist.step, r.target.name) = r.val

---------------------------------------------------------------------------
(* C3 *)
(* A target defined with a falsy value (0, 0.0, '') counts as defined for *)
(* a  ==  formula and is not overwritten; a right-hand attribute defined  *)
(* with the value 0 resolves to 0.                                        *)
FalsyValues == {IntV(0), FloatV(0), StrV(<<>>)}

C3_AbsenceIsNotFalsy ==
    step_type \in {"Standard", "Add Labels"} =>
      \A k \in 1..Len(trace) :
          LET r == trace[k]
          IN  /\ PairingComplete(r) /\ Evaluated(r) /\ ~r.overwrite
                   /\ r.before \in FalsyValues => r.after = r.before
              /\ RhSelectable(r) /\ ~RhUnresolvable(r) =>
                   \A j \in RhIndex(r) :
                       FirstDefined(r.pre, r.phs[j], r.t) = IntV(0) =>
                          r.k # "skip_rhs" /\ r.vals[j - 1] = IntV(0)

---------------------------------------------------------------------------
(* C4 *)
(* Once a  ==  formula has written its target for a pairing, a later      *)
(* application of the same formula to the same pairing in the run leaves  *)
(* the target attribute as it finds it.                                   *)
C4_NewOnlyIsIdempotent ==
    \A i \in 1..Len(trace), j \in 1..Len(trace) :
        /\ i < j
        /\ trace[i].ftext = trace[j].ftext /\ trace[i].t = trace[j].t
        /\ ~trace[i].overwrite
        /\ trace[i].k = "assigned"
        /\ Evaluated(trace[j])
        => trace[j].after = trace[j].before

---------------------------------------------------------------------------
(* C9 *)
(* The text substituted for a resolved string value is read by eval as    *)
(* exactly one string literal equal to that value.                        *)
C9_StringsAreLiterals ==
    \A k \in 1..Len(trace) :
        LET r == trace[k]
        IN  RhSelectable(r) =>
              \A j \in 1..Len(r.vals) :
                  r.vals[j].t = "str" =>
                     Lex(r.vals[j].s, 1)
                        = << Tok("str", FirstDefined(r.pre, r.phs[j + 1], r.t), <<>>) >>

---------------------------------------------------------------------------
(* C10 *)
(* The value stored by an assignment is the evaluated right-hand side as  *)
(* it is: a float is stored with all its decimals (the 2-decimal rounding *)
(* is for the log line only), a string unchanged.                         *)
C10_WritesUnrounded ==
    \A k \in 1..Len(trace) :
        LET r == trace[k]
        IN  r.k = "assigned" => UdfGet(r.post, r.obj, r.name) = r.val

\* a float with a third decimal was assigned
C10_Witness ==
    \E k \in 1..Len(trace) :
        /\ trace[k].k = "assigned"
        /\ trace[k].val.t = "float" /\ trace[k].val.n % 10 # 0
        /\ UdfGet(udf, trace[k].obj, trace[k].name) = trace[k].val

\* the statement with rounding: a float is stored rounded to 2 decimals
C10_WritesRounded ==
    \A k \in 1..Len(trace) :
        LET r == trace[k]
        IN  r.k = "assigned" =>
              UdfGet(r.post, r.obj, r.name)
                 = IF r.val.t = "float" THEN FloatV(Round2(r.val.n)) ELSE r.val

---------------------------------------------------------------------------
(* What an accepted formula may contain.                                   *)

\* the texts the allow-list names: function names, strings, math characters
AllowedItems ==
    { allowed_functions[k] : k \in 1..Len(allowed_functions) }
    \cup { allowed_strings[k] : k \in 1..Len(allowed_strings) }
    \cup { <<c>> : c \in pure_math_chars }

AllowedFunctionNames == { allowed_functions[k] : k \in 1..Len(allowed_functions) }

\* s is a concatenation of allow-listed items
RECURSIVE OnlyAllowed(_)
OnlyAllowed(s) ==
    \/ s = <<>>
    \/ \E it \in AllowedItems :
          IsAt(s, 1, it) /\ OnlyAllowed(SubSeq(s, Len(it) + 1, Len(s)))

\* the identifiers of expression text s from position i on, outside quotes
RECURSIVE IdentifiersIn(_, _)
IdentifiersIn(s, i) ==
    IF i > Len(s) THEN {}
    ELSE IF s[i] = Q
    THEN LET j == Find(s, <<Q>>, i + 1)
         IN  IF j = 0 THEN {} ELSE IdentifiersIn(s, j + 1)
    ELSE IF s[i] \in Digits THEN IdentifiersIn(s, DigitsEnd(s, i) + 1)
    ELSE IF s[i] \in IdentStart
    THEN {SubSeq(s, i, IdentEnd(s, i))} \cup IdentifiersIn(s, IdentEnd(s, i) + 1)
    ELSE IdentifiersIn(s, i + 1)

---------------------------------------------------------------------------
(* C7 *)
(* A formula that parse_formula accepts contains, once its placeholders   *)
(* are removed, nothing but allow-listed function names, allow-listed     *)
(* strings and math characters, so its expression has no identifier that  *)
(* is not an allow-listed function name.                                  *)
C7_OnlyAllowListedText ==
    p_out.ok =>
      /\ OnlyAllowed(p_out.fstring)
      /\ IdentifiersIn(p_out.fstring, 1) \subseteq AllowedFunctionNames

---------------------------------------------------------------------------
(* C8 *)
(* parse_formula accepts every formula of the documented grammar: a        *)
(* placeholder,  =  or  ==, and a right-hand side of placeholders, numbers *)
(* (decimal literals included), operators, parentheses, allowed functions *)
(* and allowed strings.                                                   *)
C8_AcceptsDocumentedGrammar ==
    p_in \in GoodFormulas /\ p_out # NoParse => p_out.ok


---------------------------------------------------------------------------
(* What the properties of fetch_last speak about, stated from the history  *)
(* and the UDF dictionaries alone.                                         *)

\* the artifacts that the parent step of art pairs, as inputs, with art
InputsOf(art) ==
    LET pp == fl_hist.parent[art]
    IN  IF pp = NoEntity THEN {}
        ELSE { fl_hist.maps[pp][k][1] :
                 k \in { j \in 1..Len(fl_hist.maps[pp]) : fl_hist.maps[pp][j][2] = art } }
             \ {NoEntity}

\* the artifact that many hops back from art along unique linked inputs,
\* NoEntity when the chain ends before
RECURSIVE Back(_, _)
Back(art, hops) ==
    IF hops = 0 \/ art = NoEntity THEN art
    ELSE IF Cardinality(InputsOf(art)) # 1 THEN NoEntity
    ELSE Back(CHOOSE x \in InputsOf(art) : TRUE, hops - 1)

\* the hops at which the chain from the start holds the UDF name; a chain
\* that holds it at all holds it within as many hops as there are artifacts
HopsHolding(name) ==
    { k \in 0..Cardinality(FArts) :
        /\ Back(fl_args.target_art, k) # NoEntity
        /\ name \in DOMAIN fl_udf[Back(fl_args.target_art, k)] }

NearestHop(name) == CHOOSE k \in HopsHolding(name) : \A m \in HopsHolding(name) : k <= m

\* the chain from the start ends at an artifact without parent process
EndsWithoutParent ==
    \E k \in 0..Cardinality(FArts) :
        /\ Back(fl_args.target_art, k) # NoEntity
        /\ fl_hist.parent[Back(fl_args.target_art, k)] = NoEntity

FetchEnded == fl_pc \in {"returned", "raised"}

\* failure as on_fail asks for it: on_fail returned, or on_fail raised
FailureSignalled == fl_ret = on_assertion(fl_args.on_fail)

---------------------------------------------------------------------------
(* C11 *)
(* fetch_last with include_current=True and one target UDF returns the    *)
(* value of the artifact nearest to the start (fewest hops along unique   *)
(* linked inputs, hop 0 being the start) that holds the UDF, having looked *)
(* at no artifact further back; when no artifact of the chain holds it and *)
(* the chain ends at an artifact without parent process, failure is        *)
(* signalled through on_fail.                                              *)
C11_NearestValueWins ==
    FetchEnded /\ fl_args.include_current /\ Len(fl_args.target_udfs) = 1 =>
        IF HopsHolding(fl_args.target_udfs[1]) # {}
        THEN /\ fl_ret = Ret("val",
                    fl_udf[Back(fl_args.target_art, NearestHop(fl_args.target_udfs[1]))]
                          [fl_args.target_udfs[1]],
                    "", Back(fl_args.target_art, NearestHop(fl_args.target_udfs[1])))
             /\ fl_read = { Back(fl_args.target_art, k) :
                              k \in 0..NearestHop(fl_args.target_udfs[1]) }
        ELSE EndsWithoutParent => FailureSignalled

---------------------------------------------------------------------------
(* C12 *)
(* fetch_last called with an on_fail that is not an exception class never  *)
(* raises: when the traceback ends without a value it returns on_fail.     *)
C12_OnFailNeverRaises ==
    FetchEnded /\ fl_args.on_fail.k = "val" =>
        /\ fl_pc = "returned"
        /\ fl_ret.at = NoEntity => fl_ret = Ret("val", fl_args.on_fail.v, "", NoEntity)

---------------------------------------------------------------------------
(* C13 *)
(* fetch_last terminates on every finite history, a history in which the   *)
(* linked inputs lead back to an artifact already visited included: every  *)
(* call eventually returns or raises.                                      *)
C13_FetchTerminates == <>FetchEnded


---------------------------------------------------------------------------
(* C14 *)
(* A script wrapped by epp_decorator exits non-zero whenever its main      *)
(* raised an exception or a log record of level WARNING or higher was      *)
(* emitted during the run, and exits 0 only if neither happened; the       *)
(* exception is logged before the exit; whether the log upload failed does *)
(* not enter into the exit status.                                         *)
WarningEmitted ==
    \E k \in 1..Len(wr_emitted) : levelno(wr_emitted[k].level) >= levelno("WARNING")

ExceptionLogged ==
    \E k \in 1..Len(wr_log) : wr_log[k].level = "ERROR" /\ wr_log[k].msg = wr_raised

C14_ExitStatus ==
    wr_pc = "exited" =>
        /\ (wr_exit # 0) <=> (wr_raised # "none" \/ WarningEmitted)
        /\ wr_raised # "none" => ExceptionLogged


---------------------------------------------------------------------------
(* What the properties of idxs_from_label speak about.                     *)

\* the reverse complement of a sequence, base by base from its end
RECURSIVE ReverseComplement(_)
ReverseComplement(seq) ==
    IF seq = <<>> THEN <<>>
    ELSE ReverseComplement(Tail(seq))
         \o <<CASE Head(seq) = "A" -> "T" [] Head(seq) = "T" -> "A"
                [] Head(seq) = "C" -> "G" [] Head(seq) = "G" -> "C"
                [] OTHER -> Head(seq)>>

\* the dual-index kit codes of the reference table
DualKits == {<<"S", "I", "-", "T", "T", "-", "A", "1">>, <<"S", "I", "-", "N", "T", "-", "H", "1", "0">>, <<"S", "I", "-", "N", "N", "-", "C", "3">>, <<"S", "I", "-", "T", "N", "-", "D", "7">>, <<"S", "I", "-", "T", "S", "-", "E", "1", "2">>}

\* the label holds the kit code, not as the beginning of a longer kit code
HoldsKit(label, kit) ==
    \E i \in 1..Len(label) :
        /\ IsAt(label, i, kit)
        /\ Len(kit) = 9 \/ At(label, i + Len(kit)) \notin {"0", "1", "2"}

IdxsCalled == ix_out # NoIdxs

---------------------------------------------------------------------------
(* C15 *)
(* For a label that holds a dual-index 10X kit code, idxs_from_label       *)
(* returns exactly one pair: the kit's first sequence of the reference     *)
(* table unchanged, and the reverse complement of its second sequence.     *)
C15_DualKitPair ==
    \A kit \in DualKits :
        IdxsCalled /\ HoldsKit(ix_label, kit) =>
            ix_out = Returns(<<Pair(Chromium_10X_indexes(kit)[1],
                                    ReverseComplement(Chromium_10X_indexes(kit)[2]))>>)

\* a dual kit code with text around it was expanded, its second sequence changed
C15_Witness ==
    /\ ix_label = Cat3(<<"x", " ">>, <<"S", "I", "-", "N", "T", "-", "H", "1", "0">>, <<" ", "(", "A", "C", "G", "T", "A", "C", "G", "T", "-", "T", "T", "G", "G", "C", "C", "A", "A", ")">>)
    /\ ix_out.k = "list"
    /\ Len(ix_out.idxs) = 1
    /\ ix_out.idxs[1].i1 = <<"A", "C", "G", "G", "C", "T", "G", "T", "T", "T">>
    /\ ix_out.idxs[1].i2 = <<"C", "C", "T", "C", "G", "A", "A", "T", "G", "G">>

---------------------------------------------------------------------------
(* C16 *)
(* idxs_from_label raises for every label that, commas removed, is empty   *)
(* or is NOINDEX in whatever case, and for no label returns an empty list. *)
C16_NoIndexRaises ==
    IdxsCalled =>
        /\ ix_label \in NoIndexLabels => ix_out.k = "raise"
        /\ ix_out.k = "list" => ix_out.idxs # <<>>

\* a no-index label written with a comma and in mixed case was refused
C16_Witness ==
    /\ ix_label = <<"N", "o", ",", "I", "n", "d", "e", "x">>
    /\ ix_out = Fails("AssertionError: NoIndex cases not allowed.")

---------------------------------------------------------------------------
(* C17 *)
(* For a label that is one inline sequence idxs_from_label returns a list  *)
(* of that one bare sequence, never a pair; for a label of two sequences   *)
(* joined by a dash it returns the one pair of the first sequence and the  *)
(* reverse complement of the second.                                       *)
C17_InlineSequences ==
    IdxsCalled =>
        /\ ix_label \in {<<"A", "C", "G", "T", "A", "C", "G", "T">>, <<"T", "T", "G", "G", "C", "C", "A", "A">>, <<"A", "A", "C", "C">>}
             => ix_out = Returns(<<Bare(ix_label)>>)
        /\ \A a \in {<<"A", "C", "G", "T", "A", "C", "G", "T">>, <<"T", "T", "G", "G", "C", "C", "A", "A">>, <<"A", "A", "C", "C">>},
              b \in {<<"A", "C", "G", "T", "A", "C", "G", "T">>, <<"T", "T", "G", "G", "C", "C", "A", "A">>, <<"A", "A", "C", "C">>} :
             ix_label = Cat3(a, <<"-">>, b)
               => ix_out = Returns(<<Pair(a, ReverseComplement(b))>>)


---------------------------------------------------------------------------
(* check_pair_distance and show_match of generate_aviti_run_manifest.py.   *)
(* A manifest row is a record; its index sequences are sequences of        *)
(* characters.                                                             *)

\* the largest threshold check_pair_distance is called with
MaxThreshold == 3

Row(name, i1, i2, lane, project) ==
    [SampleName |-> name, Index1 |-> i1, Index2 |-> i2, Lane |-> lane, Project |-> project]

Least(a, b) == IF a <= b THEN a ELSE b

\* one row of the edit-distance table, entry by entry: prev is the row of
\* the characters before ca, cur the entries of the new row so far
RECURSIVE LevRow(_, _, _, _)
LevRow(ca, b, prev, cur) ==
    IF Len(cur) > Len(b) THEN cur
    ELSE LevRow(ca, b, prev,
                Append(cur, Least(Least(prev[Len(cur) + 1] + 1, cur[Len(cur)] + 1),
                                  prev[Len(cur)] + (IF ca = b[Len(cur)] THEN 0 ELSE 1))))

\* row by row: prev[1] is the number of characters of a already taken
RECURSIVE LevRows(_, _, _)
LevRows(a, b, prev) ==
    IF prev[1] = Len(a) THEN prev[Len(b) + 1]
    ELSE LevRows(a, b, LevRow(a[prev[1] + 1], b, prev, <<prev[1] + 1>>))

\* Levenshtein.distance(a, b)
distance(a, b) == LevRows(a, b, [j \in 1..(Len(b) + 1) |-> j - 1])

\* f"{i1}-{i2}"
Dashed(i1, i2) == Cat3(i1, <<"-">>, i2)

\* show_match(seq1, seq2): the three lines, or the failed assertion
show_match(seq1, seq2) ==
    IF Len(seq1) # Len(seq2) THEN [k |-> "raise", e |-> "AssertionError"]
    ELSE [k |-> "lines", seq1 |-> seq1,
          m |-> [n \in 1..Len(seq1) |-> IF seq1[n] = seq2[n] THEN "|" ELSE "X"],
          seq2 |-> seq2]

\* the n-th entry of the list flips, n from 0: the loops run over the first
\* row's Index1, its Index2, the second row's Index1, its Index2
Flip(row, row_comp, n) ==
    LET s1i1 == IF (n \div 8) % 2 = 0 THEN row.Index1 ELSE revcomp(row.Index1)
        s1i2 == IF (n \div 4) % 2 = 0 THEN row.Index2 ELSE revcomp(row.Index2)
        s2i1 == IF (n \div 2) % 2 = 0 THEN row_comp.Index1 ELSE revcomp(row_comp.Index1)
        s2i2 == IF n % 2 = 0 THEN row_comp.Index2 ELSE revcomp(row_comp.Index2)
    IN  [dist |-> distance(s1i1, s2i1) + distance(s1i2, s2i2),
         seqs |-> <<Dashed(s1i1, s1i2), Dashed(s2i1, s2i2)>>,
         conf |-> n]

\* min(flips, key=lambda x: x[0]): the first entry of the least distance
RECURSIVE MinFlip(_, _, _)
MinFlip(flips, best, n) ==
    IF n > Len(flips) THEN best
    ELSE MinFlip(flips, IF flips[n].dist < best.dist THEN flips[n] ELSE best, n + 1)

\* dist, compared_seqs and flip_conf of check_pair_distance
Compared(row, row_comp, check_flips) ==
    IF check_flips
    THEN LET flips == [n \in 1..16 |-> Flip(row, row_comp, n - 1)]
         IN  MinFlip(flips, flips[1], 2)
    ELSE [dist |-> distance(row.Index1 \o row.Index2, row_comp.Index1 \o row_comp.Index2),
          seqs |-> <<Dashed(row.Index1, row.Index2), Dashed(row_comp.Index1, row_comp.Index2)>>,
          conf |-> 0]

\* what a call of check_pair_distance leaves: the records logged and the
\* exception raised, "none" if it returned
Checked(log, e) == [k |-> "done", log |-> log, exc |-> e]
NoCheck == [k |-> "none", log |-> <<>>, exc |-> "none"]

\* the warning of check_pair_distance for a pair at distance c.dist
PairWarning(row, row_comp, check_flips, c, match) ==
    [level |-> "WARNING", dist |-> c.dist, a |-> row.SampleName, b |-> row_comp.SampleName,
     flip |-> IF check_flips THEN <<c.conf>> ELSE <<>>,
     match |-> match]

\* every warned pair treated as a collision
warn_pair_raising(row, row_comp, check_flips, threshold, c) ==
    IF c.dist > threshold THEN Checked(<<>>, "none")
    ELSE Checked(<<PairWarning(row, row_comp, check_flips, c, [k |-> "no lines"])>>,
                 "AssertionError: Identical indices detected.")

\* the part of check_pair_distance after dist is known
warn_pair(row, row_comp, check_flips, threshold, c) ==
    IF c.dist > threshold THEN Checked(<<>>, "none")
    ELSE LET equal == Len(row.Index1) + Len(row.Index2)
                        = Len(row_comp.Index1) + Len(row_comp.Index2)
             match == IF equal THEN show_match(c.seqs[1], c.seqs[2])
                      ELSE [k |-> "no lines"]
         IN  IF match.k = "raise" THEN Checked(<<>>, match.e)
             ELSE Checked(<<PairWarning(row, row_comp, check_flips, c, match)>>,
                          IF c.dist = 0 THEN "AssertionError: Identical indices detected."
                          ELSE "none")

check_pair_distance(row, row_comp, check_flips, threshold) ==
    warn_pair(row, row_comp, check_flips, threshold, Compared(row, row_comp, check_flips))

\* rows given to check_pair_distance: equal and unequal lengths, an empty
\* Index2, equal sequences split differently between Index1 and Index2
PairRows ==
    { Row(<<"A">>, <<"A", "C", "G", "T", "A", "C", "G", "T">>, <<>>, <<"1">>, <<"P">>),
      Row(<<"B">>, <<"A", "C", "G", "T", "A", "C", "G", "A">>, <<>>, <<"1">>, <<"P">>),
      Row(<<"C">>, <<"A", "C", "G", "T", "A", "C">>, <<"G", "T">>, <<"1">>, <<"P">>),
      Row(<<"D">>, <<"A", "C", "G", "T", "A", "A", "C", "C">>, <<"G", "G", "T", "T">>, <<"1">>, <<"P">>),
      Row(<<"E">>, <<"A", "C", "G", "T", "A", "A", "C", "C">>, <<"A", "A", "C", "C">>, <<"1">>, <<"P">>),
      Row(<<"F">>, <<"A", "C", "G", "T", "A", "C", "G", "T", "A">>, <<>>, <<"1">>, <<"P">>),
      Row(<<"G">>, <<"T", "T", "G", "G", "C", "C", "A", "A">>, <<>>, <<"1">>, <<"P">>) }

InitPair ==
    /\ EngineIdle
    /\ MainIdle
    /\ PutIdle
    /\ FetchIdle
    /\ WrapIdle
    /\ IdxIdle
    /\ ManIdle
    /\ \E row \in PairRows, row_comp \in PairRows, check_flips \in BOOLEAN,
          threshold \in 0..MaxThreshold :
           cp_in = [k |-> "call", row |-> row, row_comp |-> row_comp,
                    check_flips |-> check_flips, threshold |-> threshold]
    /\ cp_out = NoCheck

\* the call check_pair_distance(row, row_comp, check_flips, threshold)
CheckPairDistance ==
    /\ cp_out = NoCheck
    /\ cp_out' = check_pair_distance(cp_in.row, cp_in.row_comp, cp_in.check_flips,
                                     cp_in.threshold)
    /\ UNCHANGED <<not_pair, cp_in>>

NextPair == CheckPairDistance

SpecPair == InitPair /\ [][NextPair]_vars


---------------------------------------------------------------------------
(* What the property of check_pair_distance speaks about.                  *)

PairChecked == cp_out # NoCheck

\* the distance check_pair_distance works with for the rows it was given
PairDist == Compared(cp_in.row, cp_in.row_comp, cp_in.check_flips).dist

(* C19 *)
(* check_pair_distance on two rows at a distance above 0 and at or below   *)
(* the threshold logs one warning and returns without raising, whatever    *)
(* the lengths of the indexes; at a distance above the threshold it logs   *)
(* nothing and returns; it raises only at distance 0.                      *)
C19_WarnsWithoutRaising ==
    PairChecked =>
        /\ (0 < PairDist /\ PairDist <= cp_in.threshold)
             => /\ Len(cp_out.log) = 1
                /\ cp_out.log[1].level = "WARNING"
                /\ cp_out.exc = "none"
        /\ PairDist > cp_in.threshold
             => cp_out.log = <<>> /\ cp_out.exc = "none"
        /\ cp_out.exc # "none" => PairDist = 0

\* two rows with an empty Index2 one substitution apart were warned about
\* and the call returned
C19_Witness ==
    /\ cp_in.row = Row(<<"A">>, <<"A", "C", "G", "T", "A", "C", "G", "T">>, <<>>, <<"1">>, <<"P">>)
    /\ cp_in.row_comp = Row(<<"B">>, <<"A", "C", "G", "T", "A", "C", "G", "A">>, <<>>, <<"1">>, <<"P">>)
    /\ cp_in.threshold = 2
    /\ cp_out.k = "done"
    /\ Len(cp_out.log) = 1
    /\ cp_out.log[1].dist = 1
    /\ cp_out.exc = "none"

---------------------------------------------------------------------------
(* get_manifests of generate_aviti_run_manifest.py: the rows of the        *)
(* samples, the rows of the PhiX controls, the check of the distances lane *)
(* by lane and the four manifests.                                         *)

\* the Element PhiX control sets; a name that is no key has no indices
PHIX_SETS(name) ==
    CASE name = "PhiX Control Library, Adept" ->
            [nickname |-> <<"P", "h", "i", "X", "_", "A", "d", "e", "p", "t">>,
             indices |-> <<<<<<"A", "T", "G", "T", "C", "G", "C", "T", "A", "G">>, <<"C", "T", "A", "G", "C", "T", "C", "G", "T", "A">>>>, <<<<"C", "A", "C", "A", "G", "A", "T", "C", "G", "T">>, <<"A", "C", "G", "A", "G", "A", "G", "T", "C", "T">>>>,
                           <<<<"G", "C", "A", "C", "A", "T", "A", "G", "T", "C">>, <<"G", "A", "C", "T", "A", "C", "T", "A", "G", "C">>>>, <<<<"T", "G", "T", "G", "T", "C", "G", "A", "C", "A">>, <<"T", "G", "T", "C", "T", "G", "A", "C", "A", "G">>>>>>]
      [] name = "Cloudbreak PhiX Control Library, Elevate" ->
            [nickname |-> <<"P", "h", "i", "X", "_", "E", "l", "e", "v", "a", "t", "e">>,
             indices |-> <<<<<<"A", "C", "G", "T", "G", "T", "A", "G", "C">>, <<"G", "C", "T", "A", "G", "T", "G", "C", "A">>>>, <<<<"C", "A", "C", "A", "T", "G", "C", "T", "G">>, <<"A", "G", "A", "C", "A", "C", "T", "G", "T">>>>,
                           <<<<"G", "T", "A", "C", "A", "C", "G", "A", "T">>, <<"C", "T", "C", "G", "T", "A", "C", "A", "G">>>>, <<<<"T", "G", "T", "G", "C", "A", "T", "C", "A">>, <<"T", "A", "G", "T", "C", "G", "A", "T", "C">>>>>>]
      [] name = "Cloudbreak Freestyle PhiX Control, Third Party" ->
            [nickname |-> <<"P", "h", "i", "X", "_", "T", "h", "i", "r", "d">>,
             indices |-> <<<<<<"A", "T", "G", "T", "C", "G", "C", "T", "A", "G">>, <<"C", "T", "A", "G", "C", "T", "C", "G", "T", "A">>>>, <<<<"C", "A", "C", "A", "G", "A", "T", "C", "G", "T">>, <<"A", "C", "G", "A", "G", "A", "G", "T", "C", "T">>>>,
                           <<<<"G", "C", "A", "C", "A", "T", "A", "G", "T", "C">>, <<"G", "A", "C", "T", "A", "C", "T", "A", "G", "C">>>>, <<<<"T", "G", "T", "G", "T", "C", "G", "A", "C", "A">>, <<"T", "G", "T", "C", "T", "G", "A", "C", "A", "G">>>>>>]
      [] OTHER -> [nickname |-> <<>>, indices |-> <<>>]

\* above this many cycles of Index Read 2 a missing index 2 is taken for a UMI
UmiCycles == 12

\* a row of the sample dataframe
SampleRow(name, i1, i2, lane, project, recipe, phix_loaded, phix_set_name, lims_label, settings) ==
    [SampleName |-> name, Index1 |-> i1, Index2 |-> i2, Lane |-> lane, Project |-> project,
     Recipe |-> recipe, phix_loaded |-> phix_loaded, phix_set_name |-> phix_set_name,
     lims_label |-> lims_label, settings |-> settings]

\* str.replace(".", "__").replace(",", "") of a project name
RECURSIVE ProjectName(_)
ProjectName(name) ==
    IF name = <<>> THEN <<>>
    ELSE (CASE Head(name) = "." -> <<"_", "_">>
            [] Head(name) = "," -> <<>>
            [] OTHER -> <<Head(name)>>) \o ProjectName(Tail(name))

\* dict_to_manifest_col(row_settings) for the settings get_manifests builds
dict_to_manifest_col(lims_label) ==
    IF FindTenX(lims_label, 1, SingleKinds) # <<>> THEN <<"I", "1", "F", "a", "s", "t", "q", ":", "T", "r", "u", "e">> ELSE <<>>

\* Index2 of a row whose idx is a tuple; user_library is "True" or "False"
TupleIndex2(idx, lims_label, user_library) ==
    IF \/ user_library = "False"
       \/ FindTenX(lims_label, 1, DualKinds) # <<>>
       \/ FindSmartSeq(lims_label, 1) # <<>>
    THEN revcomp(idx.i2)
    ELSE idx.i2

\* Index2 of a row whose idx is a string
BareIndex2(idx_read_2) ==
    IF idx_read_2 > UmiCycles THEN [n \in 1..idx_read_2 |-> "N"] ELSE <<>>

\* the row get_manifests builds for one element of idxs_from_label(lims_label)
row_of(sample, pool, idx, user_library, idx_read_2) ==
    SampleRow(sample.name,
              idx.i1,
              IF idx.t = "tuple" THEN TupleIndex2(idx, sample.label, user_library)
              ELSE BareIndex2(idx_read_2),
              pool.lane,
              IF sample.project = <<>> THEN <<"C", "o", "n", "t", "r", "o", "l">> ELSE ProjectName(sample.project),
              IF sample.project = <<>> THEN <<"0", "-", "0">> ELSE sample.setup,
              pool.phix_loaded, pool.phix_set_name, sample.label,
              dict_to_manifest_col(sample.label))

\* the local user_library after the branch on sample.project: it keeps its
\* value, or stays unbound, for a sample without project
UserLibrary(sample, user_library) ==
    IF sample.project = <<>> THEN user_library
    ELSE IF sample.method = "Finished library (by user)" THEN "True" ELSE "False"

\* what the loops of get_manifests have built: the rows, the local
\* user_library, and the exception that ended them, "none" if none
Built(rows, user_library, e) == [rows |-> rows, user_library |-> user_library, exc |-> e]

\* the rows of one sample added to the rows built so far
sample_rows(sample, pool, built, idxs, idx_read_2) ==
    IF idxs.k = "raise" THEN Built(built.rows, built.user_library, idxs.e)
    ELSE IF /\ UserLibrary(sample, built.user_library) = "unbound"
            /\ \E n \in 1..Len(idxs.idxs) : idxs.idxs[n].t = "tuple"
    THEN Built(built.rows, "unbound", "UnboundLocalError")
    ELSE Built(built.rows \o [n \in 1..Len(idxs.idxs) |->
                                row_of(sample, pool, idxs.idxs[n],
                                       UserLibrary(sample, built.user_library), idx_read_2)],
               UserLibrary(sample, built.user_library), "none")

\* the loop over pool.samples from sample n on
RECURSIVE pool_samples(_, _, _, _)
pool_samples(pool, n, built, idx_read_2) ==
    IF built.exc # "none" \/ n > Len(pool.samples) THEN built
    ELSE pool_samples(pool, n + 1,
                      sample_rows(pool.samples[n], pool, built,
                                  idxs_from_label(pool.samples[n].label), idx_read_2),
                      idx_read_2)

\* the assertions on a pool before its samples are read
pool_asserts(pool) ==
    IF \E m, n \in 1..Len(pool.reagent_labels) :
           m # n /\ pool.reagent_labels[m] = pool.reagent_labels[n]
    THEN "AssertionError: Detected non-unique reagent labels"
    ELSE IF pool.phix_loaded # 0 /\ pool.phix_set_name = ""
    THEN "AssertionError: PhiX controls loaded but no kit specified."
    ELSE IF pool.phix_loaded = 0 /\ pool.phix_set_name # ""
    THEN "AssertionError: PhiX controls specified but not loaded."
    ELSE "none"

\* the loop over the pools from pool n on
RECURSIVE pool_rows(_, _, _, _)
pool_rows(pools, n, built, idx_read_2) ==
    IF built.exc # "none" \/ n > Len(pools) THEN built
    ELSE IF pool_asserts(pools[n]) # "none"
    THEN Built(built.rows, built.user_library, pool_asserts(pools[n]))
    ELSE pool_rows(pools, n + 1, pool_samples(pools[n], 1, built, idx_read_2), idx_read_2)

L1 == <<"1">>
L2 == <<"2">>

\* sorted(zip(arts_out, lanes), key=lambda x: x[1]) for the lanes the
\* assertion lets through
SortedPools(pools) ==
    SelectSeq(pools, LAMBDA pool : pool.lane = L1) \o SelectSeq(pools, LAMBDA pool : pool.lane = L2)

\* get_manifests up to the sample dataframe
get_sample_rows(process) ==
    IF Len(process.pools) \notin {1, 2}
    THEN Built(<<>>, "unbound", "AssertionError: Expected one or two output analytes.")
    ELSE IF { process.pools[n].lane : n \in 1..Len(process.pools) } \notin {{L1}, {L1, L2}}
    THEN Built(<<>>, "unbound", "AssertionError: Expected a single-lane or dual-lane flowcell.")
    ELSE pool_rows(SortedPools(process.pools), 1, Built(<<>>, "unbound", "none"),
                   process.idx_read_2)


\* the characters of lanes and sample names in the order Python compares them
Ascii ==
    <<"\"", ",", "-", "0", "1", "2", "3", "4", "5", "6", "7", "8", "9",
      "A", "B", "C", "D", "E", "F", "G", "H", "I", "J", "K", "L", "M",
      "N", "O", "P", "Q", "R", "S", "T", "U", "V", "W", "X", "Y", "Z", "_",
      "a", "b", "c", "d", "e", "f", "g", "h", "i", "j", "k", "l", "m",
      "n", "o", "p", "q", "r", "s", "t", "u", "v", "w", "x", "y", "z">>

Ord(c) == CHOOSE n \in 1..Len(Ascii) : Ascii[n] = c

\* a < b for strings
RECURSIVE StrLess(_, _)
StrLess(a, b) ==
    IF b = <<>> THEN FALSE
    ELSE IF a = <<>> THEN TRUE
    ELSE IF Head(a) = Head(b) THEN StrLess(Tail(a), Tail(b))
    ELSE Ord(Head(a)) < Ord(Head(b))

\* row r sorts before row q by ["Lane", "SampleName"]
RowLess(r, q) ==
    \/ StrLess(r.Lane, q.Lane)
    \/ r.Lane = q.Lane /\ StrLess(r.SampleName, q.SampleName)

\* r put behind the rows of sorted that do not sort after it
RECURSIVE InsertRow(_, _)
InsertRow(sorted, r) ==
    IF sorted = <<>> THEN <<r>>
    ELSE IF RowLess(r, Head(sorted)) THEN <<r>> \o sorted
    ELSE <<Head(sorted)>> \o InsertRow(Tail(sorted), r)

\* df.sort_values(by=["Lane", "SampleName"]) of the first n rows
RECURSIVE sort_values(_, _)
sort_values(rows, n) ==
    IF n = 0 THEN <<>> ELSE InsertRow(sort_values(rows, n - 1), rows[n])

\* the keys of df.groupby("Lane"), in their order
LanesOf(rows) ==
    SelectSeq(<<L1, L2>>, LAMBDA lane : \E n \in 1..Len(rows) : rows[n].Lane = lane)

\* the group of a lane
LaneGroup(rows, lane) == SelectSeq(rows, LAMBDA r : r.Lane = lane)

\* the value pandas gives a column a row has no entry for
NaN == <<"N", "a", "N">>

\* the rows of the PhiX controls of one lane group
control_rows(group) ==
    IF \A n \in 1..Len(group) : group[n].phix_loaded = 0 THEN <<>>
    ELSE [n \in 1..Len(PHIX_SETS(group[1].phix_set_name).indices) |->
            SampleRow(PHIX_SETS(group[1].phix_set_name).nickname,
                      PHIX_SETS(group[1].phix_set_name).indices[n][1],
                      PHIX_SETS(group[1].phix_set_name).indices[n][2],
                      group[1].Lane, <<"C", "o", "n", "t", "r", "o", "l">>, <<"0", "-", "0">>, NaN, NaN, NaN, NaN)]

\* a lane with PhiX loaded names a set that is no key of PHIX_SETS
UnknownSet(df_samples) ==
    \E n \in 1..Len(df_samples) :
        /\ \E m \in 1..Len(df_samples) :
               df_samples[m].Lane = df_samples[n].Lane /\ df_samples[m].phix_loaded # 0
        /\ PHIX_SETS(LaneGroup(df_samples, df_samples[n].Lane)[1].phix_set_name).indices = <<>>

\* df_samples_and_controls before it is sorted
with_controls(df_samples) ==
    df_samples
    \o (IF LaneGroup(df_samples, L1) = <<>> THEN <<>>
        ELSE control_rows(LaneGroup(df_samples, L1)))
    \o (IF LaneGroup(df_samples, L2) = <<>> THEN <<>>
        ELSE control_rows(LaneGroup(df_samples, L2)))

\* only rows next to each other compared
PairAfterAdjacent(n, i, j) == IF i + 2 <= n THEN <<i + 1, i + 2>> ELSE <<0, 0>>

\* check_distances: the position after the pair (i, j) of a lane of n rows
PairAfter(n, i, j) ==
    IF j < n THEN <<i, j + 1>> ELSE IF i + 2 <= n THEN <<i + 1, i + 2>> ELSE <<0, 0>>

\* the first pair check_distances takes of the group of a lane from the k-th
\* lane on; no lane when no lane has two rows any more
RECURSIVE FirstPos(_, _, _)
FirstPos(rows, lanes, k) ==
    IF k > Len(lanes) THEN [lane |-> <<>>, i |-> 0, j |-> 0]
    ELSE IF Len(LaneGroup(rows, lanes[k])) >= 2 THEN [lane |-> lanes[k], i |-> 1, j |-> 2]
    ELSE FirstPos(rows, lanes, k + 1)

\* the position of the lane in the list of lanes
LaneIndex(lanes, lane) == CHOOSE k \in 1..Len(lanes) : lanes[k] = lane

\* the pair after the pair at pos
NextPos(rows, pos) ==
    IF PairAfter(Len(LaneGroup(rows, pos.lane)), pos.i, pos.j) # <<0, 0>>
    THEN [lane |-> pos.lane,
          i |-> PairAfter(Len(LaneGroup(rows, pos.lane)), pos.i, pos.j)[1],
          j |-> PairAfter(Len(LaneGroup(rows, pos.lane)), pos.i, pos.j)[2]]
    ELSE FirstPos(rows, LanesOf(rows), LaneIndex(LanesOf(rows), pos.lane) + 1)


\* the rows whose column idx is shorter than the number of cycles
Shorter(rows, idx, cycles) == SelectSeq(rows, LAMBDA r : Len(r[idx]) < cycles)

\* the indexes left at their length
Untrimmed(rows, idx, cycles) == rows

\* df[idx].apply(lambda x: x[:cycles])
Trimmed(rows, idx, cycles) ==
    [n \in 1..Len(rows) |->
        [rows[n] EXCEPT ![idx] = SubSeq(@, 1, Least(cycles, Len(@)))]]

Logged(level, msg, about) == [level |-> level, msg |-> msg, about |-> about]

\* the errors logged for indexes shorter than the cycles
short_errors(short, idx, manifest_type) ==
    [n \in 1..Len(short) |-> Logged("ERROR", "shorter than cycles", <<short[n].SampleName, idx>>)]
    \o <<Logged("ERROR", "Could not generate manifest because indexes are shorter", manifest_type)>>

\* the distances of the pairs of one lane from pair (i, j) on, in column idx
RECURSIVE pair_dists(_, _, _, _)
pair_dists(group, idx, i, j) ==
    IF i = 0 \/ Len(group) < 2 THEN <<>>
    ELSE <<distance(group[i][idx], group[j][idx])>>
         \o pair_dists(group, idx, PairAfter(Len(group), i, j)[1], PairAfter(Len(group), i, j)[2])

\* the rows of all lanes taken as one group
lane_dists_mixed(df, idx, lanes, k) == pair_dists(df, idx, 1, 2)

\* idx1_dists or idx2_dists of get_custom_mistmatch_thresholds
RECURSIVE lane_dists(_, _, _, _)
lane_dists(df, idx, lanes, k) ==
    IF k > Len(lanes) THEN <<>>
    ELSE pair_dists(LaneGroup(df, lanes[k]), idx, 1, 2) \o lane_dists(df, idx, lanes, k + 1)

\* min() of a list that is not empty
MinOf(dists) ==
    CHOOSE d \in { dists[n] : n \in 1..Len(dists) } : \A n \in 1..Len(dists) : d <= dists[n]

\* at or below this least distance the allowed mismatches go from 1 to 0
MismatchDistance == 2

\* get_custom_mistmatch_thresholds once the lists of distances are collected
thresholds_from(idx1_dists, idx2_dists) ==
    IF idx1_dists = <<>>
    THEN [k |-> "raise", e |-> "ValueError", i1 |-> 1, i2 |-> 1, log |-> <<>>]
    ELSE IF MinOf([n \in 1..Len(idx1_dists) |-> idx1_dists[n] + idx2_dists[n]]) = 0
    THEN [k |-> "raise", e |-> "AssertionError: Total index distance of 0 detected.",
          i1 |-> 1, i2 |-> 1, log |-> <<>>]
    ELSE [k |-> "ok", e |-> "none",
          i1 |-> IF MinOf(idx1_dists) <= MismatchDistance THEN 0 ELSE 1,
          i2 |-> IF MinOf(idx2_dists) <= MismatchDistance THEN 0 ELSE 1,
          log |-> (IF MinOf(idx1_dists) <= MismatchDistance
                   THEN <<Logged("WARNING", "Minimum distance at or below 2", "Index1")>>
                   ELSE <<>>)
                  \o (IF MinOf(idx2_dists) <= MismatchDistance
                      THEN <<Logged("WARNING", "Minimum distance at or below 2", "Index2")>>
                      ELSE <<>>)]

get_custom_mistmatch_thresholds(df) ==
    thresholds_from(lane_dists(df, "Index1", LanesOf(df), 1),
                    lane_dists(df, "Index2", LanesOf(df), 1))

\* what make_manifest gives: the contents (NoContents for None), the records
\* it logged, the exception that left it
NoContents == [k |-> "None"]
Contents(manifest_type, samples, rows, settings) ==
    [k |-> "text", type |-> manifest_type, samples |-> samples, rows |-> rows,
     settings |-> settings]
Made(contents, log, e) == [contents |-> contents, log |-> log, exc |-> e]

\* make_manifest from the thresholds on: the settings section and the contents
with_thresholds(manifest_type, df, log, t) ==
    IF t.k = "raise" /\ t.e = "ValueError" THEN Made(NoContents, log, t.e)
    ELSE IF t.k = "raise"
    THEN Made(NoContents,
              log \o <<Logged("ERROR", t.e, manifest_type),
                       Logged("ERROR", "Could not generate manifest without index collisions",
                              manifest_type)>>,
              "none")
    ELSE Made(Contents(manifest_type, TRUE, df, <<t.i1, t.i2>>), log \o t.log, "none")

\* make_manifest for the types "trimmed" and "phix", df already subset
trimmed_manifest(manifest_type, df, idx1_cycles, idx2_cycles) ==
    IF Shorter(df, "Index1", idx1_cycles) # <<>>
    THEN Made(NoContents, short_errors(Shorter(df, "Index1", idx1_cycles), "Index1", manifest_type),
              "none")
    ELSE IF Shorter(df, "Index2", idx2_cycles) # <<>>
    THEN Made(NoContents, short_errors(Shorter(df, "Index2", idx2_cycles), "Index2", manifest_type),
              "none")
    ELSE with_thresholds(manifest_type,
                         Trimmed(Trimmed(df, "Index1", idx1_cycles), "Index2", idx2_cycles),
                         <<>>,
                         get_custom_mistmatch_thresholds(
                             Trimmed(Trimmed(df, "Index1", idx1_cycles), "Index2", idx2_cycles)))

make_manifest(df_samples_and_controls, process, manifest_type) ==
    CASE manifest_type = "untrimmed" ->
            Made(Contents(manifest_type, TRUE, df_samples_and_controls, <<>>), <<>>, "none")
      [] manifest_type = "trimmed" ->
            trimmed_manifest(manifest_type, df_samples_and_controls,
                             process.idx_read_1, process.idx_read_2)
      [] manifest_type = "phix" ->
            trimmed_manifest(manifest_type,
                             SelectSeq(df_samples_and_controls, LAMBDA r : r.Project = <<"C", "o", "n", "t", "r", "o", "l">>),
                             process.idx_read_1, process.idx_read_2)
      [] manifest_type = "empty" ->
            Made(Contents(manifest_type, FALSE, <<>>, <<>>), <<>>, "none")
      [] OTHER -> Made(NoContents, <<>>, "AssertionError: Invalid manifest type.")

\* the manifest types in the order get_manifests makes them
ManifestTypes == <<"untrimmed", "trimmed", "phix", "empty">>

\* the threshold check_distances passes on
CheckThreshold == 2

\* the place in the dataframe of the i-th row of a lane
RowNumber(rows, lane, i) ==
    CHOOSE n \in 1..Len(rows) :
        /\ rows[n].Lane = lane
        /\ Cardinality({ m \in 1..n : rows[m].Lane = lane }) = i


\* a sample of a pool: its name, its reagent label, the name of its project
\* (none for a sample without project), the project's library construction
\* method and sequencing setup
Smp(name, label, project, method, setup) ==
    [name |-> name, label |-> label, project |-> project, method |-> method, setup |-> setup]

InHouse(name, label) == Smp(name, label, <<"A", ".", "P", "r", "o", "j", "e", "c", "t", "_", "2", "4", "_", "0", "1">>, "Library, in-house", <<"1", "5", "1", "-", "1", "5", "1">>)

smp_a == InHouse(<<"P", "1", "_", "1", "0", "1">>, <<"A", "C", "G", "T", "A", "C", "G", "T">>)
smp_b == InHouse(<<"P", "1", "_", "1", "0", "2">>, <<"A", "C", "G", "T", "A", "C", "G", "A">>)
smp_c == InHouse(<<"P", "1", "_", "1", "0", "3">>, <<"A", "C", "G", "T", "A", "C", "-", "G", "T">>)
smp_d == InHouse(<<"P", "1", "_", "1", "0", "4">>, <<"T", "T", "G", "G", "C", "C", "A", "A", "-", "A", "A", "C", "C", "A", "A">>)
smp_e == InHouse(<<"P", "1", "_", "1", "0", "5">>, <<"A", "C", "G", "T", "A", "C", "A", "C">>)
smp_f == InHouse(<<"P", "1", "_", "1", "0", "6">>, <<"A", "C", "G", "T", "A", "A", "C", "C", "-", "A", "A", "C", "C", "A", "A">>)
smp_h == InHouse(<<"P", "1", "_", "1", "0", "8">>, <<"T", "T", "G", "G", "C", "C", "A", "T", "-", "C", "C", "C", "C", "C", "C">>)
smp_k == InHouse(<<"P", "1", "_", "1", "1", "0">>, <<"S", "I", "-", "G", "A", "-", "A", "1">>)
smp_p == InHouse(<<"P", "1", "_", "1", "1", "1">>, <<"A", "T", "G", "T", "C", "G", "C", "T", "A", "G", "-", "T", "A", "C", "G", "A", "G", "C", "T", "A", "G">>)
smp_t == InHouse(<<"P", "1", "_", "1", "1", "2">>, <<"S", "I", "-", "T", "T", "-", "A", "1">>)
smp_x == InHouse(<<"P", "1", "_", "1", "1", "3">>, <<"x", " ", "A", "C", "G", "T", "A", "C", "G", "T">>)
smp_a2 == InHouse(<<"P", "1", "_", "1", "1", "4">>, <<"A", "C", "G", "T", "A", "C", "G", "T">>)
smp_u == Smp(<<"P", "2", "_", "2", "0", "1">>, <<"T", "T", "G", "G", "C", "C", "A", "A", "-", "A", "A", "C", "C", "A", "A">>, <<"B", ".", "U", "s", "e", "r", "_", "2", "4", "_", "0", "2">>, "Finished library (by user)", <<"5", "1", "-", "5", "1">>)
smp_ctrl == Smp(<<"c", "t", "r", "l">>, <<"G", "G", "G", "G", "T", "T", "T", "T">>, <<>>, "", <<>>)
smp_m == InHouse(<<"P", "1", "_", "1", "1", "6">>, <<"A", "C", "G", "T", "A", "C", "G", "T", "A", "A">>)
smp_n == InHouse(<<"P", "1", "_", "1", "1", "7">>, <<"A", "C", "G", "T", "A", "C", "G", "T", "C", "C">>)
smp_ctrl2 == Smp(<<"c", "t", "r", "l", "2">>, <<"G", "G", "G", "G", "T", "T", "T", "T", "-", "A", "A", "C", "C">>, <<>>, "", <<>>)
\* a sample name with a comma and double quotes in it:  P1_1,"q"
smp_q == InHouse(<<"P", "1", "_", "1", ",", "\"", "q", "\"">>, <<"T", "T", "G", "G", "C", "C", "A", "A">>)
smp_none == InHouse(<<"P", "1", "_", "1", "1", "5">>, <<"N", "o", "I", "n", "d", "e", "x">>)

\* what the samples of a lane may be
LaneSamples ==
    { <<smp_a>>, <<smp_a, smp_b>>, <<smp_c, smp_e>>, <<smp_d, smp_f>>, <<smp_d, smp_h>>, <<smp_k>>, <<smp_p, smp_a>>,
      <<smp_ctrl>>, <<smp_a, smp_ctrl>>, <<smp_a, smp_a2>>, <<smp_a, smp_x>>, <<smp_u, smp_d>>, <<smp_t, smp_d>>,
      <<smp_none>>, <<smp_q, smp_a>>, <<smp_m, smp_n>>, <<smp_u, smp_ctrl2>>, <<smp_a, smp_ctrl2>>,
      <<smp_ctrl2, smp_a>> }

\* "% phiX" and "Element PhiX Set" of a pool, 0 and "" where the UDF is not set
PhixUdfs ==
    { <<0, "">>, <<1, "PhiX Control Library, Adept">>,
      <<1, "Cloudbreak PhiX Control Library, Elevate">>,
      <<1, "">>, <<0, "PhiX Control Library, Adept">> }

\* "Index Read 1" and "Index Read 2" of the step
IndexReads == { <<8, 0>>, <<6, 4>>, <<8, 6>>, <<10, 10>>, <<8, 13>> }

APool(lane, samples, phix) ==
    [lane |-> lane, samples |-> samples,
     reagent_labels |-> [n \in 1..Len(samples) |-> samples[n].label],
     phix_loaded |-> phix[1], phix_set_name |-> phix[2]]

AProcess(pools, reads) ==
    [k |-> "process", pools |-> pools, idx_read_1 |-> reads[1], idx_read_2 |-> reads[2]]

\* steps with one lane
OneLane ==
    { AProcess(<<APool(L1, samples, phix)>>, reads) :
        samples \in LaneSamples, phix \in PhixUdfs, reads \in IndexReads }

\* steps with two lanes, and steps the assertions on the lanes refuse
TwoLanes ==
    { AProcess(<<APool(lanes[1], both[1], phix), APool(lanes[2], both[2], <<0, "">>)>>, reads) :
        lanes \in {<<L1, L2>>, <<L2, L1>>, <<L1, L1>>, <<L2, L2>>},
        both \in {<<<<smp_a>>, <<smp_a>>>>, <<<<smp_a, smp_b>>, <<smp_a>>>>, <<<<smp_d, smp_f>>, <<smp_h, smp_f>>>>,
                  <<<<smp_a>>, <<smp_ctrl>>>>},
        phix \in {<<0, "">>, <<1, "PhiX Control Library, Adept">>},
        reads \in {<<8, 0>>, <<6, 4>>} }
    \cup { AProcess(<<APool(L2, <<smp_a>>, <<0, "">>)>>, <<8, 0>>),
           AProcess(<<APool(L1, <<smp_a>>, <<0, "">>), APool(L2, <<smp_b>>, <<0, "">>),
                      APool(L2, <<smp_d>>, <<0, "">>)>>, <<8, 0>>) }

Processes == OneLane \cup TwoLanes

InitMan ==
    /\ EngineIdle
    /\ FetchIdle
    /\ WrapIdle
    /\ IdxIdle
    /\ PairIdle
    /\ mf_proc \in Processes
    /\ mf_rows = <<>>
    /\ mf_pc = "rows"
    /\ mf_pos = [lane |-> <<>>, i |-> 0, j |-> 0]
    /\ mf_log = <<>>
    /\ mf_made = <<>>
    /\ mf_exc = "none"
    /\ mf_compared = <<>>
    /\ mn_pc = "manifests"
    /\ mn_zip = <<>>
    /\ PutIdle

\* get_manifests raises e
ManRaise(e) ==
    /\ mf_pc' = "raised"
    /\ mf_exc' = e

\* the assertions on the step and the rows of its samples
GetRows ==
    /\ mf_pc = "rows"
    /\ LET built == get_sample_rows(mf_proc)
       IN  IF built.exc # "none"
           THEN /\ ManRaise(built.exc)
                /\ UNCHANGED mf_rows
           ELSE /\ mf_rows' = built.rows
                /\ mf_pc' = "phix"
                /\ UNCHANGED mf_exc
    /\ UNCHANGED <<not_man, mf_proc, mf_pos, mf_log, mf_made, mf_compared>>

\* where get_manifests goes on from the pair at pos: to the next pair, or to
\* the manifests when there is none
CheckFrom(pos) ==
    /\ mf_pos' = pos
    /\ mf_pc' = IF pos.lane = <<>> THEN "make" ELSE "check"

\* the rows of the PhiX controls are added and the dataframe is sorted
AddControls ==
    /\ mf_pc = "phix"
    /\ IF UnknownSet(mf_rows)
       THEN /\ ManRaise("KeyError")
            /\ UNCHANGED <<mf_rows, mf_pos>>
       ELSE /\ mf_rows' = sort_values(with_controls(mf_rows), Len(with_controls(mf_rows)))
            /\ CheckFrom(FirstPos(mf_rows', LanesOf(mf_rows'), 1))
            /\ UNCHANGED mf_exc
    /\ UNCHANGED <<not_man, mf_proc, mf_log, mf_made, mf_compared>>

\* check_distances: one call of check_pair_distance
CheckPair ==
    /\ mf_pc = "check"
    /\ LET group == LaneGroup(mf_rows, mf_pos.lane)
           out == check_pair_distance(group[mf_pos.i], group[mf_pos.j], FALSE, CheckThreshold)
       IN  /\ mf_log' = mf_log \o out.log
           /\ IF out.exc # "none"
              THEN /\ ManRaise(out.exc)
                   /\ UNCHANGED mf_pos
              ELSE /\ CheckFrom(NextPos(mf_rows, mf_pos))
                   /\ UNCHANGED mf_exc
    /\ mf_compared' = Append(mf_compared, <<RowNumber(mf_rows, mf_pos.lane, mf_pos.i),
                                            RowNumber(mf_rows, mf_pos.lane, mf_pos.j)>>)
    /\ UNCHANGED <<not_man, mf_proc, mf_rows, mf_made>>

\* one call of make_manifest; after the last one get_manifests returns
MakeManifest ==
    /\ mf_pc = "make"
    /\ LET made == make_manifest(mf_rows, mf_proc, ManifestTypes[Len(mf_made) + 1])
       IN  /\ mf_log' = mf_log \o made.log
           /\ IF made.exc # "none"
              THEN /\ ManRaise(made.exc)
                   /\ UNCHANGED mf_made
              ELSE /\ mf_made' = Append(mf_made, [name |-> ManifestTypes[Len(mf_made) + 1],
                                                  contents |-> made.contents])
                   /\ mf_pc' = IF Len(mf_made') = Len(ManifestTypes) THEN "returned" ELSE "make"
                   /\ UNCHANGED mf_exc
    /\ UNCHANGED <<not_man, mf_proc, mf_rows, mf_pos, mf_compared>>

\* a file for every manifest, with or without contents
zip_files_all(manifests, n) == manifests

\* the files main writes to the zip file: the manifests that have contents
RECURSIVE zip_files(_, _)
zip_files(manifests, n) ==
    IF n > Len(manifests) THEN <<>>
    ELSE (IF manifests[n].contents # NoContents THEN <<manifests[n]>> ELSE <<>>)
         \o zip_files(manifests, n + 1)

\* the warnings main logs for the manifests without contents
RECURSIVE zip_warnings(_, _)
zip_warnings(manifests, n) ==
    IF n > Len(manifests) THEN <<>>
    ELSE (IF manifests[n].contents # NoContents THEN <<>>
          ELSE <<Logged("WARNING", "Not writing file due to missing contents", manifests[n].name)>>)
         \o zip_warnings(manifests, n + 1)

\* main writes and zips the manifests get_manifests returned
ZipManifests ==
    /\ mf_pc = "returned"
    /\ mn_pc = "manifests"
    /\ mn_zip' = zip_files(mf_made, 1)
    /\ mf_log' = mf_log \o zip_warnings(mf_made, 1)
    /\ mn_pc' = "upload"
    /\ UNCHANGED <<not_main, mf_proc, mf_rows, mf_pc, mf_pos, mf_made, mf_exc, mf_compared>>

\* upload_file of the zip file: it returns, or an exception leaves main
UploadZip ==
    /\ mn_pc = "upload"
    /\ \E uploaded \in BOOLEAN : mn_pc' = IF uploaded THEN "move" ELSE "failed"
    /\ UNCHANGED <<not_main, man_vars, mn_zip>>

\* the zip file is copied to the samplesheet folder; a failure is logged
MoveZip ==
    /\ mn_pc = "move"
    /\ \E moved \in BOOLEAN :
           mf_log' = IF moved THEN mf_log
                     ELSE Append(mf_log, Logged("ERROR", "Failed to move run manifest to ngi-nas-ns.", ""))
    /\ mn_pc' = "done"
    /\ UNCHANGED <<not_main, mf_proc, mf_rows, mf_pc, mf_pos, mf_made, mf_exc, mf_compared, mn_zip>>

NextMan == GetRows \/ AddControls \/ CheckPair \/ MakeManifest \/ ZipManifests \/ UploadZip \/ MoveZip

SpecMan == InitMan /\ [][NextMan]_vars

---------------------------------------------------------------------------
(* What the properties of get_manifests speak about.                       *)

\* the pairs of places of distinct rows of the same lane
SameLanePairs(rows) ==
    { p \in (1..Len(rows)) \X (1..Len(rows)) : p[1] < p[2] /\ rows[p[1]].Lane = rows[p[2]].Lane }

\* two rows of the same lane have the same Index1 + Index2
Collision(rows) ==
    \E p \in SameLanePairs(rows) :
        rows[p[1]].Index1 \o rows[p[1]].Index2 = rows[p[2]].Index1 \o rows[p[2]].Index2

\* check_distances has gone through every lane
DistancesChecked == mf_pc \in {"make", "returned"}

(* C18 *)
(* In get_manifests, when two distinct rows of the same lane, rows of      *)
(* samples or of PhiX controls, have the same Index1 + Index2, no manifest *)
(* of any type is made: get_manifests never gets to make_manifest.  Only   *)
(* pairs of rows of the same lane are compared, none twice, and once the   *)
(* distances are checked every such pair has been compared.                *)
C18_CollisionStopsManifests ==
    /\ Collision(mf_rows) => mf_made = <<>> /\ ~DistancesChecked
    /\ \A k \in 1..Len(mf_compared) : mf_compared[k] \in SameLanePairs(mf_rows)
    /\ \A k, l \in 1..Len(mf_compared) : k # l => mf_compared[k] # mf_compared[l]
    /\ DistancesChecked
         => { mf_compared[k] : k \in 1..Len(mf_compared) } = SameLanePairs(mf_rows)

\* a sample with the indexes of a PhiX control of its lane stopped
\* get_manifests, after other pairs had been compared
C18_Witness ==
    /\ mf_pc = "raised"
    /\ mf_exc = "AssertionError: Identical indices detected."
    /\ mf_made = <<>>
    /\ Len(mf_compared) > 1
    /\ \E p \in SameLanePairs(mf_rows) :
           /\ mf_compared[Len(mf_compared)] = p
           /\ mf_rows[p[1]].SampleName = <<"P", "1", "_", "1", "1", "1">>
           /\ mf_rows[p[2]].SampleName = <<"P", "h", "i", "X", "_", "A", "d", "e", "p", "t">>
           /\ mf_rows[p[1]].Index1 = mf_rows[p[2]].Index1
           /\ mf_rows[p[1]].Index2 = mf_rows[p[2]].Index2

---------------------------------------------------------------------------
\* the manifests made so far of the types that carry mismatch thresholds
WithThresholds ==
    { n \in 1..Len(mf_made) :
        mf_made[n].name \in {"trimmed", "phix"} /\ mf_made[n].contents # NoContents }

\* some pair of rows of the same lane is at distance 2 or less in column idx
ClosePair(rows, idx) ==
    \E p \in SameLanePairs(rows) : distance(rows[p[1]][idx], rows[p[2]][idx]) <= 2

(* C20 *)
(* In every trimmed or phix manifest that is generated, I1MismatchThreshold *)
(* is 0 if some pair of rows of the manifest in the same lane has Index1   *)
(* at edit distance 2 or less, and 1 otherwise; I2MismatchThreshold is the *)
(* same for Index2 alone.  Rows of different lanes do not count.           *)
C20_MismatchThresholds ==
    \A n \in WithThresholds :
        /\ mf_made[n].contents.settings[1]
             = (IF ClosePair(mf_made[n].contents.rows, "Index1") THEN 0 ELSE 1)
        /\ mf_made[n].contents.settings[2]
             = (IF ClosePair(mf_made[n].contents.rows, "Index2") THEN 0 ELSE 1)

\* a trimmed manifest of two lanes was generated with the mismatches of
\* Index1 kept at 1, while rows of different lanes are one substitution apart
\* in Index1
C20_Witness ==
    /\ mf_pc = "returned"
    /\ \E n \in WithThresholds :
           /\ mf_made[n].name = "trimmed"
           /\ mf_made[n].contents.settings[1] = 1
           /\ \E a, b \in 1..Len(mf_made[n].contents.rows) :
                  /\ mf_made[n].contents.rows[a].Lane # mf_made[n].contents.rows[b].Lane
                  /\ distance(mf_made[n].contents.rows[a].Index1,
                              mf_made[n].contents.rows[b].Index1) = 1

\* a trimmed manifest with the mismatches of Index1 at 0 and of Index2 at 1
C20_Independent ==
    \E n \in WithThresholds :
        mf_made[n].name = "trimmed" /\ mf_made[n].contents.settings = <<0, 1>>

---------------------------------------------------------------------------
\* the manifest of a type among those made so far, none if it is not made yet
MadeOf(manifest_type) ==
    { mf_made[n].contents : n \in { k \in 1..Len(mf_made) : mf_made[k].name = manifest_type } }

\* some row has an index shorter than the cycles of its index read
ShortIndex(rows, process) ==
    \E n \in 1..Len(rows) :
        \/ Len(rows[n].Index1) < process.idx_read_1
        \/ Len(rows[n].Index2) < process.idx_read_2

\* the first c characters of an index of at least c characters
FirstChars(index, c) == [n \in 1..c |-> index[n]]

(* C21 *)
(* For the trimmed manifest: if some row has an Index1 shorter than the    *)
(* cycles of Index Read 1 or an Index2 shorter than the cycles of Index    *)
(* Read 2, make_manifest returns no contents; and in a trimmed manifest    *)
(* that has contents, the Index1 and Index2 of every row are the first     *)
(* `cycles` characters of the row's untrimmed indexes.                     *)
C21_TrimmedToCycles ==
    \A contents \in MadeOf("trimmed") :
        /\ ShortIndex(mf_rows, mf_proc) => contents = NoContents
        /\ contents # NoContents
             => /\ Len(contents.rows) = Len(mf_rows)
                /\ \A n \in 1..Len(mf_rows) :
                       /\ contents.rows[n].Index1
                            = FirstChars(mf_rows[n].Index1, mf_proc.idx_read_1)
                       /\ contents.rows[n].Index2
                            = FirstChars(mf_rows[n].Index2, mf_proc.idx_read_2)
                       /\ contents.rows[n].SampleName = mf_rows[n].SampleName

\* a trimmed manifest was made of rows whose indexes are longer than the cycles
C21_Witness ==
    /\ mf_proc.idx_read_1 = 6
    /\ mf_proc.idx_read_2 = 4
    /\ \E contents \in MadeOf("trimmed") :
           /\ contents # NoContents
           /\ \E n \in 1..Len(mf_rows) :
                  /\ Len(mf_rows[n].Index1) = 8
                  /\ Len(mf_rows[n].Index2) = 6
                  /\ Len(contents.rows[n].Index1) = 6
                  /\ Len(contents.rows[n].Index2) = 4

---------------------------------------------------------------------------
\* the rows of the step were built, and check_distances went through every
\* pair of every lane without an exception
ValidationPassed ==
    /\ get_sample_rows(mf_proc).exc = "none"
    /\ mf_rows # <<>>
    /\ ~Collision(mf_rows)
    /\ { mf_compared[k] : k \in 1..Len(mf_compared) } = SameLanePairs(mf_rows)

(* C22 *)
(* For every set of rows that passed the check of the distances, be it a   *)
(* lane with a single row or a step without control rows, no exception     *)
(* leaves make_manifest, and get_manifests returns four entries, each with *)
(* contents or with None.                                                  *)
C22_FlavorsNeverRaise ==
    ValidationPassed =>
        /\ mf_pc # "raised"
        /\ mf_pc = "returned" => Len(mf_made) = Len(ManifestTypes)

---------------------------------------------------------------------------
\* the files of the zip file with the name of a manifest
FilesOf(name) == { k \in 1..Len(mn_zip) : mn_zip[k].name = name }

\* main has written the zip file
Zipped == mn_pc \in {"upload", "move", "done", "failed"}

\* the original statement of C23: a file for every manifest type
C23_EmptyFileInPlace ==
    Zipped => \A n \in 1..Len(mf_made) : FilesOf(mf_made[n].name) # {}

(* C23 *)
(* For every manifest type whose manifest has no contents, the zip file    *)
(* holds no file of that name and a warning that the file is not written   *)
(* is logged; for every type whose manifest has contents the zip file      *)
(* holds one file with these contents.                                     *)
C23_SkippedNotWritten ==
    Zipped =>
        \A n \in 1..Len(mf_made) :
            IF mf_made[n].contents = NoContents
            THEN /\ FilesOf(mf_made[n].name) = {}
                 /\ \E k \in 1..Len(mf_log) :
                        mf_log[k] = Logged("WARNING", "Not writing file due to missing contents",
                                           mf_made[n].name)
            ELSE /\ Cardinality(FilesOf(mf_made[n].name)) = 1
                 /\ \A k \in FilesOf(mf_made[n].name) : mn_zip[k].contents = mf_made[n].contents

\* a zip file was written and moved without the trimmed manifest
C23_Witness ==
    /\ mn_pc = "done"
    /\ MadeOf("trimmed") = {NoContents}
    /\ FilesOf("trimmed") = {}
    /\ FilesOf("untrimmed") # {}
    /\ Len(mn_zip) < Len(mf_made)

---------------------------------------------------------------------------
\* two rows of a lane differ, and are the same once trimmed to the cycles
TrimmedCollision(rows, process) ==
    /\ ~ShortIndex(rows, process)
    /\ \E p \in SameLanePairs(rows) :
           /\ rows[p[1]].Index1 \o rows[p[1]].Index2 # rows[p[2]].Index1 \o rows[p[2]].Index2
           /\ FirstChars(rows[p[1]].Index1, process.idx_read_1)
                = FirstChars(rows[p[2]].Index1, process.idx_read_1)
           /\ FirstChars(rows[p[1]].Index2, process.idx_read_2)
                = FirstChars(rows[p[2]].Index2, process.idx_read_2)

(* C26 *)
(* When two rows of a lane have different indexes that are the same once   *)
(* trimmed to the cycles, get_manifests is not left by an exception, and   *)
(* of the manifests it returns the trimmed one has no contents, with the   *)
(* collision logged, while the untrimmed and the empty one have contents.  *)
C26_OnlyTrimmedSkipped ==
    ValidationPassed /\ TrimmedCollision(mf_rows, mf_proc) =>
        /\ mf_pc # "raised"
        /\ MadeOf("trimmed") \subseteq {NoContents}
        /\ MadeOf("trimmed") # {}
             => \E k \in 1..Len(mf_log) :
                    mf_log[k] = Logged("ERROR", "AssertionError: Total index distance of 0 detected.",
                                       "trimmed")
        /\ NoContents \notin MadeOf("untrimmed") \cup MadeOf("empty")
        /\ mf_pc = "returned" => MadeOf("untrimmed") # {} /\ MadeOf("empty") # {}

---------------------------------------------------------------------------
Reverse(seq) == [n \in 1..Len(seq) |-> seq[Len(seq) + 1 - n]]

\* the step with the samples of every pool in the opposite order
Reordered(process) ==
    [process EXCEPT !.pools =
        [n \in 1..Len(process.pools) |->
            [process.pools[n] EXCEPT !.samples = Reverse(process.pools[n].samples),
                                     !.reagent_labels = Reverse(process.pools[n].reagent_labels)]]]

\* the step with sample k of pool n alone in its pool, the other pools dropped
Alone(process, n, k) ==
    [process EXCEPT !.pools =
        <<[process.pools[n] EXCEPT !.lane = L1,
                                   !.samples = <<process.pools[n].samples[k]>>,
                                   !.reagent_labels = <<process.pools[n].reagent_labels[k]>>]>>]

\* the rows as a set, without their lane
RowsOf(built) ==
    { [built.rows[n] EXCEPT !.Lane = L1] : n \in 1..Len(built.rows) }

(* C30 *)
(* The rows get_manifests builds for a sample depend on that sample alone: *)
(* with the samples of the pools in the opposite order the same rows are   *)
(* built, and the rows of each sample are the rows built for it when it is *)
(* the only sample of the step, a control without project included.        *)
C30_RowsPerSample ==
    mf_pc \notin {"idle", "rows"} /\ get_sample_rows(mf_proc).exc = "none" =>
        /\ get_sample_rows(Reordered(mf_proc)).exc = "none"
        /\ RowsOf(get_sample_rows(Reordered(mf_proc))) = RowsOf(get_sample_rows(mf_proc))
        /\ \A n \in 1..Len(mf_proc.pools) : \A k \in 1..Len(mf_proc.pools[n].samples) :
               /\ get_sample_rows(Alone(mf_proc, n, k)).exc = "none"
               /\ RowsOf(get_sample_rows(Alone(mf_proc, n, k)))
                    = { r \in RowsOf(get_sample_rows(mf_proc)) :
                          r.SampleName = mf_proc.pools[n].samples[k].name }

---------------------------------------------------------------------------
\* a placeholder with one UDF name that is not recursive
SimplePlaceholder(ph) == ph[1] # "_" /\ Len(QuotedNames(ph, 1)) = 1

\* the value get_val_from_placeholder gives for UDF name of entity e
ValueOf(store, e, name) == Requote(Got(UdfGet(store, e, name))).v

(* C25 *)
(* The scope tag of a placeholder alone selects the entity: a calculation  *)
(* that assigns writes the UDF of the entity of the tag of its left-hand   *)
(* placeholder (inp the input, outp the output, step the step), and every  *)
(* value it read for a placeholder with one name is the value of that UDF  *)
(* on the entity of the placeholder's tag, whatever text the UDF names     *)
(* hold.                                                                   *)
C25_ScopeTagSelects ==
    \A k \in 1..Len(trace) :
        /\ trace[k].k = "assigned" /\ trace[k].target.obj # NoEntity
             => /\ trace[k].obj = trace[k].target.obj
                /\ trace[k].name = trace[k].target.name
        /\ trace[k].k \in {"assigned", "skip_exists"}
             => \A i \in 2..Len(trace[k].phs) :
                    SimplePlaceholder(trace[k].phs[i])
                    /\ EntityOf(hist, trace[k].phs[i], trace[k].t) # NoEntity
                      => trace[k].vals[i - 1]
                           = ValueOf(trace[k].pre, EntityOf(hist, trace[k].phs[i], trace[k].t),
                                     QuotedNames(trace[k].phs[i], 1)[1])

---------------------------------------------------------------------------
\* some pairing of the step has an analyte as its output
AnalyteOutput(h) ==
    \E k \in 1..Len(h.maps[h.step]) :
        /\ h.maps[h.step][k][2] # NoEntity
        /\ h.type[h.maps[h.step][k][2]] = "Analyte"

\* pairing t has an analyte on both sides
BothAnalytes(h, t) ==
    /\ t[1] # NoEntity /\ t[2] # NoEntity
    /\ h.type[t[1]] = "Analyte" /\ h.type[t[2]] = "Analyte"

(* C27 *)
(* A step with id prefix 24 is of type 'No Outputs' exactly when none of   *)
(* its pairings has an analyte as output; in a step of type 'Standard' or  *)
(* 'Add Labels' every pairing apply_formula iterates has an analyte as     *)
(* input and an analyte as output, and no calculation fails on a pairing   *)
(* that lacks a side.                                                      *)
C27_PairingsComplete ==
    step_type # "" =>
        /\ hist.pid = "24" => (step_type = "No Outputs" <=> ~AnalyteOutput(hist))
        /\ step_type \in {"Standard", "Add Labels"}
             => \A k \in 1..Len(Iterated(hist, step_type)) :
                    BothAnalytes(hist, Iterated(hist, step_type)[k])
        /\ \A k \in 1..Len(trace) :
               trace[k].k = "raised" /\ trace[k].e = "TypeError"
                 => trace[k].t[1] # NoEntity /\ trace[k].t[2] # NoEntity

---------------------------------------------------------------------------
\* the iterations of formula f so far
Records(f) == { k \in 1..Len(trace) : trace[k].f = f }

\* formula f went through every pairing of the step
Complete(f) ==
    { trace[k].i : k \in Records(f) } = 1..Len(Iterated(hist, step_type))

\* parse_formula raised on formula fi
Malformed == pc = "failed" /\ fi > 0 /\ ~parsed.ok

(* C28 *)
(* The formulas are parsed and applied in the order of the rows of the     *)
(* field, a formula going through all pairings before the next one is      *)
(* parsed; each calculation starts from the UDFs as the calculation before *)
(* it left them; when parse_formula rejects formula k, the run ends with   *)
(* the calculations of the formulas 1..k-1 all made and stored, and no     *)
(* calculation of a formula k..n.                                          *)
C28_InFieldOrder ==
    /\ \A k \in 1..Len(trace) :
           /\ trace[k].f \in 1..Len(get_formulas(field))
           /\ trace[k].ftext = get_formulas(field)[trace[k].f]
    /\ \A k \in 1..(Len(trace) - 1) :
           /\ trace[k + 1].pre = trace[k].post
           /\ \/ trace[k + 1].f = trace[k].f /\ trace[k + 1].i = trace[k].i + 1
              \/ /\ trace[k + 1].f = trace[k].f + 1
                 /\ trace[k + 1].i = 1
                 /\ trace[k].i = trace[k].n
    /\ trace # <<>> => udf = trace[Len(trace)].post
    /\ pc = "parse" \/ Malformed
         => /\ \A k \in 1..Len(trace) : trace[k].f < fi
            /\ \A f \in 1..(fi - 1) : Complete(f)
    /\ pc = "done" => \A f \in 1..Len(get_formulas(field)) : Complete(f)

\* the third formula was rejected after the second one had read, for some
\* pairing, the value the first one had written
C28_Witness ==
    /\ Malformed
    /\ fi = 3
    /\ \E j, k \in 1..Len(trace) :
           /\ trace[j].f = 1 /\ trace[k].f = 2
           /\ trace[j].t = trace[k].t
           /\ trace[j].k = "assigned"
           /\ trace[k].k = "assigned"
           /\ trace[j].name = n_C
           /\ UdfGet(trace[1].pre, trace[j].obj, n_C) # trace[j].val
           /\ trace[k].vals = <<trace[j].val>>
           /\ UdfGet(udf, trace[k].obj, trace[k].name) = trace[k].val

---------------------------------------------------------------------------
(* udf_tools.put on its own: one call put(target, 'A', val, on_fail).      *)

PutTarget == "out1"

\* del obj.udf[name]
UdfDel(store, e, name) ==
    [store EXCEPT ![e] = [k \in (DOMAIN store[e]) \ {name} |-> store[e][k]]]

\* Python's True
PyTrue == [t |-> "bool", n |-> 1, s |-> <<>>]

\* the value of the target UDF before the call; None when it is absent
PutBefore == {None, IntV(0), IntV(5), StrV(s_x)}
PutVals == {IntV(7), IntV(0), FloatV(1250), StrV(s_x)}

\* what put has not done yet
NoPut == [k |-> "none", http |-> "none", v |-> None, e |-> ""]

InitPut ==
    /\ EngineIdle
    /\ FetchIdle
    /\ WrapIdle
    /\ IdxIdle
    /\ PairIdle
    /\ ManIdle
    /\ MainIdle
    /\ \E before \in PutBefore, val \in PutVals, on_fail \in OnFails :
           /\ pt_in = [k |-> "put", before |-> before, val |-> val, on_fail |-> on_fail]
           /\ pt_udf = [e \in {PutTarget} |-> Dict(<< <<n_A, before>>, <<n_B, IntV(1)>> >>)]
    /\ pt_lims = pt_udf
    /\ pt_pc = "assign"
    /\ pt_out = NoPut

\* target.udf[target_udf] = val
PutAssign ==
    /\ pt_pc = "assign"
    /\ pt_udf' = UdfSet(pt_udf, PutTarget, n_A, pt_in.val)
    /\ pt_pc' = "put"
    /\ UNCHANGED <<not_put, pt_in, pt_lims, pt_out>>

\* target.put(): the LIMS stores the UDFs, or answers with an HTTP error, or
\* the request fails in another way;  return True
TargetPut ==
    /\ pt_pc = "put"
    /\ \E http \in {"ok", "HTTPError", "ConnectionError"} :
           CASE http = "ok" ->
                  /\ pt_lims' = pt_udf
                  /\ pt_pc' = "returned"
                  /\ pt_out' = [k |-> "val", http |-> http, v |-> PyTrue, e |-> ""]
             [] http = "HTTPError" ->
                  /\ pt_lims' = pt_lims
                  /\ pt_pc' = "except"
                  /\ pt_out' = [pt_out EXCEPT !.http = http]
             [] OTHER ->
                  /\ pt_lims' = pt_lims
                  /\ pt_pc' = "raised"
                  /\ pt_out' = [k |-> "raise", http |-> http, v |-> None, e |-> http]
    /\ UNCHANGED <<not_put, pt_in, pt_udf>>

\* except HTTPError: del target.udf[target_udf], then raise on_fail(...) when
\* on_fail is an exception class, else return on_fail
PutExcept ==
    /\ pt_pc = "except"
    /\ pt_udf' = UdfDel(pt_udf, PutTarget, n_A)
    /\ IF pt_in.on_fail.k = "raise"
       THEN /\ pt_pc' = "raised"
            /\ pt_out' = [pt_out EXCEPT !.k = "raise", !.e = pt_in.on_fail.e]
       ELSE /\ pt_pc' = "returned"
            /\ pt_out' = [pt_out EXCEPT !.k = "val", !.v = pt_in.on_fail.v]
    /\ UNCHANGED <<not_put, pt_in, pt_lims>>

NextPut == PutAssign \/ TargetPut \/ PutExcept

SpecPut == InitPut /\ [][NextPut]_vars

\* put is over
PutOver == pt_pc \in {"returned", "raised"}

(* C29 *)
(* When target.put() fails with an HTTP error, the target UDF is after the *)
(* call what it was before it, present with its previous value or absent,  *)
(* and put raises on_fail or returns it; when target.put() succeeds the    *)
(* UDF holds the new value and put returns True.                           *)
C29_PutFrame ==
    /\ PutOver /\ pt_out.http = "HTTPError"
         => /\ UdfGet(pt_udf, PutTarget, n_A) = pt_in.before
            /\ UdfGet(pt_lims, PutTarget, n_A) = pt_in.before
            /\ IF pt_in.on_fail.k = "raise"
               THEN pt_pc = "raised" /\ pt_out.e = pt_in.on_fail.e
               ELSE pt_pc = "returned" /\ pt_out.v = pt_in.on_fail.v
    /\ PutOver /\ pt_out.http = "ok"
         => /\ UdfGet(pt_udf, PutTarget, n_A) = pt_in.val
            /\ UdfGet(pt_lims, PutTarget, n_A) = pt_in.val
            /\ pt_pc = "returned" /\ pt_out.v = PyTrue

---------------------------------------------------------------------------
(* The [SAMPLES] section: DataFrame.to_csv as make_manifest calls it, and  *)
(* a reader of CSV text.                                                   *)

\* the columns make_manifest keeps, in their order, with their header texts
ManifestColumns ==
    << [name |-> "SampleName", text |-> <<"S", "a", "m", "p", "l", "e", "N", "a", "m", "e">>],
       [name |-> "Index1", text |-> <<"I", "n", "d", "e", "x", "1">>],
       [name |-> "Index2", text |-> <<"I", "n", "d", "e", "x", "2">>],
       [name |-> "Lane", text |-> <<"L", "a", "n", "e">>],
       [name |-> "Project", text |-> <<"P", "r", "o", "j", "e", "c", "t">>],
       [name |-> "Recipe", text |-> <<"R", "e", "c", "i", "p", "e">>],
       [name |-> "lims_label", text |-> <<"l", "i", "m", "s", "_", "l", "a", "b", "e", "l">>],
       [name |-> "settings", text |-> <<"s", "e", "t", "t", "i", "n", "g", "s">>] >>

\* the characters that make to_csv quote a field
CsvSpecial == {",", "\"", "\n", "\r"}

\* the field with every double quote doubled
RECURSIVE DoubleQuotes(_)
DoubleQuotes(v) ==
    IF v = <<>> THEN <<>>
    ELSE (IF Head(v) = "\"" THEN <<"\"", "\"">> ELSE <<Head(v)>>) \o DoubleQuotes(Tail(v))

\* a field written as it is
CsvFieldRaw(v) == IF v = NaN THEN <<>> ELSE v

\* one field as to_csv writes it: NaN as nothing, a text with a special
\* character in double quotes
CsvField(v) ==
    IF v = NaN THEN <<>>
    ELSE IF \E n \in 1..Len(v) : v[n] \in CsvSpecial
    THEN <<"\"">> \o DoubleQuotes(v) \o <<"\"">>
    ELSE v

\* one line of to_csv: the fields with commas between them, and a newline
RECURSIVE CsvLine(_)
CsvLine(fields) ==
    IF fields = <<>> THEN <<"\n">>
    ELSE CsvField(Head(fields)) \o (IF Len(fields) > 1 THEN <<",">> ELSE <<>>)
         \o CsvLine(Tail(fields))

RECURSIVE CsvLines(_, _)
CsvLines(rows, n) ==
    IF n > Len(rows) THEN <<>>
    ELSE CsvLine([c \in 1..Len(ManifestColumns) |->
                     CASE ManifestColumns[c].name = "SampleName" -> rows[n].SampleName
                       [] ManifestColumns[c].name = "Index1" -> rows[n].Index1
                       [] ManifestColumns[c].name = "Index2" -> rows[n].Index2
                       [] ManifestColumns[c].name = "Lane" -> rows[n].Lane
                       [] ManifestColumns[c].name = "Project" -> rows[n].Project
                       [] ManifestColumns[c].name = "Recipe" -> rows[n].Recipe
                       [] ManifestColumns[c].name = "lims_label" -> rows[n].lims_label
                       [] OTHER -> rows[n].settings])
         \o CsvLines(rows, n + 1)

\* df.to_csv(index=None, header=True)
to_csv(rows) ==
    CsvLine([c \in 1..Len(ManifestColumns) |-> ManifestColumns[c].text]) \o CsvLines(rows, 1)

\* f"[SAMPLES]\n{df.to_csv(index=None, header=True)}"
samples_section(rows) ==
    <<"[", "S", "A", "M", "P", "L", "E", "S", "]", "\n">> \o to_csv(rows)

\* a quoted field read from position i, after its opening quote: [val, next]
RECURSIVE ReadQuoted(_, _)
ReadQuoted(text, i) ==
    IF i > Len(text) THEN [val |-> <<>>, next |-> i]
    ELSE IF text[i] = "\"" /\ i < Len(text) /\ text[i + 1] = "\""
    THEN LET r == ReadQuoted(text, i + 2) IN [r EXCEPT !.val = <<"\"">> \o r.val]
    ELSE IF text[i] = "\"" THEN [val |-> <<>>, next |-> i + 1]
    ELSE LET r == ReadQuoted(text, i + 1) IN [r EXCEPT !.val = <<text[i]>> \o r.val]

\* a field without quotes read from position i: up to a comma or a newline
RECURSIVE ReadPlain(_, _)
ReadPlain(text, i) ==
    IF i > Len(text) \/ text[i] \in {",", "\n"} THEN [val |-> <<>>, next |-> i]
    ELSE LET r == ReadPlain(text, i + 1) IN [r EXCEPT !.val = <<text[i]>> \o r.val]

ReadField(text, i) ==
    IF i <= Len(text) /\ text[i] = "\"" THEN ReadQuoted(text, i + 1) ELSE ReadPlain(text, i)

\* the fields of the line that starts at i: [fields, next]
RECURSIVE ReadLine(_, _)
ReadLine(text, i) ==
    LET f == ReadField(text, i)
    IN  IF f.next <= Len(text) /\ text[f.next] = ","
        THEN LET r == ReadLine(text, f.next + 1) IN [r EXCEPT !.fields = <<f.val>> \o r.fields]
        ELSE [fields |-> <<f.val>>, next |-> f.next + 1]

\* the lines of the text from position i on, each as its fields
RECURSIVE ReadLines(_, _)
ReadLines(text, i) ==
    IF i > Len(text) THEN <<>>
    ELSE LET l == ReadLine(text, i) IN <<l.fields>> \o ReadLines(text, l.next)

\* the text of a section after its first line, the line of the section name
SectionBody(section) == SubSeq(section, Find(section, <<"\n">>, 1) + 1, Len(section))

\* the position of the column with the header text t among the fields, or 0
ColumnOf(header, t) ==
    IF \E c \in 1..Len(header) : header[c] = t
    THEN CHOOSE c \in 1..Len(header) : header[c] = t
    ELSE 0

\* the CSV text read by the names of its header line: for every line after
\* the header the values of SampleName, Index1, Index2 and Lane
read_csv(text) ==
    LET lines == ReadLines(text, 1)
        col(c) == ColumnOf(lines[1], ManifestColumns[c].text)
    IN  [n \in 1..(Len(lines) - 1) |->
            [SampleName |-> lines[n + 1][col(1)], Index1 |-> lines[n + 1][col(2)],
             Index2 |-> lines[n + 1][col(3)], Lane |-> lines[n + 1][col(4)]]]

\* what a row of the frame is to a reader of the manifest
RowKey(row) ==
    [SampleName |-> row.SampleName, Index1 |-> row.Index1, Index2 |-> row.Index2,
     Lane |-> row.Lane]

(* C24 *)
(* Reading the [SAMPLES] section of the untrimmed manifest as CSV gives    *)
(* as many rows as the manifest was written from, each with the SampleName,*)
(* Index1, Index2 and Lane of the row it was written from, the columns     *)
(* being found by their names in the header line.                          *)
C24_SamplesRoundTrip ==
    \A contents \in MadeOf("untrimmed") :
        contents # NoContents
          => /\ Len(read_csv(SectionBody(samples_section(contents.rows)))) = Len(mf_rows)
             /\ \A n \in 1..Len(mf_rows) :
                    read_csv(SectionBody(samples_section(contents.rows)))[n] = RowKey(mf_rows[n])

\* an untrimmed manifest was made of two rows or more, one with a comma and
\* double quotes in its sample name, one without Index2
C24_Witness ==
    /\ MadeOf("untrimmed") # {}
    /\ NoContents \notin MadeOf("untrimmed")
    /\ Len(mf_rows) >= 2
    /\ \E n \in 1..Len(mf_rows) :
           \E k \in 1..Len(mf_rows[n].SampleName) : mf_rows[n].SampleName[k] \in {",", "\""}
    /\ \E n \in 1..Len(mf_rows) : mf_rows[n].Index2 = <<>>

===========================================================================
